---- MODULE Spec2Model ----
(***************************************************************************)
(* A model of notelink's route registry (class ApiNote), of the            *)
(* authentication / error wrapping handler (wrapHandler), of listen and    *)
(* of the compilation of a route descriptor (buildRouteSchema with the     *)
(* schema and response utilities), and of the template's rate limit        *)
(* middleware (setupRateLimitMiddleware).                                  *)
(*                                                                         *)
(* Strings that the code inspects character by character (paths, the       *)
(* Authorization header) are sequences of one-character strings, so that   *)
(* concatenation, startsWith, substring and replace are computed as the    *)
(* code computes them.                                                     *)
(***************************************************************************)
EXTENDS Integers, Sequences, FiniteSets, TLC

VARIABLES
    basePath,   \* this.config.basePath, after the constructor's default
    routes,     \* this.routes: the documented route list
    engine,     \* the routes registered with the Elysia app, in order
    passed,     \* history: the descriptors passed to documentedRoute, in call order
    lastCall,   \* history: the last registry call and what it returned
    host,       \* this.config.host, after the constructor's default
    onErrorHooks, \* the number of hooks listen has bound with app.onError
    listenPort, \* per listen call: the port passed to app.listen
    promise,    \* per listen call: the promise returned: pending, resolved, rejected
    ctx,        \* one request context per request slot
    portArg,    \* history, per listen call: the port argument
    socket,     \* per listen call: the engine's socket: binding, bound, failed, closed
    errorResponse, \* the response to the last uncaught engine-level error
    fnArg,      \* the argument of a utility function called on its own
    fnResult,   \* what that call returned
    limiter     \* the rate limit middleware: its closure, clock and answers

vars == <<basePath, routes, engine, passed, lastCall, host, onErrorHooks, listenPort,
          promise, ctx, portArg, socket, errorResponse, fnArg, fnResult,
          limiter>>

\* the variables of listen's engine side, of the utility calls and of the
\* rate limit middleware
auxVars == <<portArg, socket, errorResponse, fnArg, fnResult, limiter>>

\* ------------------------------------------------------------------ bounds

\* registration calls (documentedRoute and route together) explored by Spec
MaxCalls == 2
\* request slots: requests that may be in flight together
MaxReq == 2
\* listen calls explored by SpecListen
MaxListens == 2

ReqIds == 1..MaxReq
\* the longest params list of a descriptor compiled by SpecCompile
MaxParams == 2
MaxKeys == 2

\* ------------------------------------------------------------------ paths

\* "s".replace(/\/\//g, "/"): every non-overlapping "//", scanning from the
\* left, becomes "/"; the scan resumes after the replaced pair.
RECURSIVE ReplaceDoubleSlash(_)
ReplaceDoubleSlash(s) ==
    IF Len(s) < 2 THEN s
    ELSE IF s[1] = "/" /\ s[2] = "/"
         THEN <<"/">> \o ReplaceDoubleSlash(SubSeq(s, 3, Len(s)))
         ELSE <<s[1]>> \o ReplaceDoubleSlash(Tail(s))

\* `${this.config.basePath}${path}`.replace(/\/\//g, "/")
fullPath(base, path) == ReplaceDoubleSlash(base \o path)

\* basePath: config.basePath || "/"
ConfigBasePath(b) == IF b = <<>> THEN <<"/">> ELSE b

HasDoubleSlash(s) == \E i \in 1..(Len(s) - 1) : s[i] = "/" /\ s[i + 1] = "/"

\* config.basePath values: "", "/", "/a", "/a/"
BasePaths == { <<>>, <<"/">>, <<"/", "a">>, <<"/", "a", "/">> }

\* route paths: "/u", "/u/i", "u", "//u"
pathUsers == <<"/", "u">>
pathUserId == <<"/", "u", "/", "i">>
pathNoSlash == <<"u">>
pathTwoSlash == <<"/", "/", "u">>

\* ------------------------------------------------------------- descriptors

\* method.toLowerCase()
toLowerCase(m) ==
    CASE m = "GET" -> "get"
      [] m = "POST" -> "post"
      [] m = "PUT" -> "put"
      [] m = "DELETE" -> "delete"
      [] m = "PATCH" -> "patch"
      [] m = "OPTIONS" -> "options"
      [] m = "HEAD" -> "head"
      [] m = "TRACE" -> "trace"
      [] m = "Number" -> "number"
      [] OTHER -> m

\* the cases of the switch in documentedRoute and in route
SwitchCases == {"get", "post", "put", "delete", "patch", "options", "head"}

\* -------------------------------------------------------- JavaScript values

\* The values that descriptors, parameters and schema definitions hold, by
\* what typeof and Array.isArray tell of them.  A string is the sequence of
\* its pieces ("" is <<>>); the key of an object entry is a sequence of
\* characters; the entries of an object are in insertion order.
JsUndefined == [js |-> "undefined"]
JsNull == [js |-> "null"]
JsString(text) == [js |-> "string", text |-> text]
JsNumber(n) == [js |-> "number", n |-> n]
JsBoolean(b) == [js |-> "boolean", b |-> b]
JsArray(items) == [js |-> "array", items |-> items]
JsObject(entries) == [js |-> "object", entries |-> entries]
Entry(key, value) == [key |-> key, value |-> value]

\* the truthiness that if (v), v || w and !v test
Truthy(v) ==
    CASE v.js \in {"undefined", "null"} -> FALSE
      [] v.js = "string" -> v.text # <<>>
      [] v.js = "number" -> v.n # 0
      [] v.js = "boolean" -> v.b
      [] OTHER -> TRUE

\* typeof v
typeof(v) ==
    IF v.js \in {"null", "array", "object", "typebox", "validator"}
    THEN "object" ELSE v.js

\* text.toLowerCase(), piece by piece
LowerText(text) == [i \in 1..Len(text) |-> toLowerCase(text[i])]

\* the elements of a finite set in a sequence
RECURSIVE SeqOf(_)
SeqOf(S) ==
    IF S = {} THEN <<>>
    ELSE LET x == CHOOSE y \in S : TRUE IN <<x>> \o SeqOf(S \ {x})

\* ---------------------------------------------------------------- TypeBox

\* t.Any(), t.String(), t.Number(), t.Boolean(), t.Array(items),
\* t.Object(properties), t.Optional(schema): the schema objects of the
\* type builder.  They are plain objects: kind and optional stand for the
\* symbol-keyed members, properties maps each name to its schema, and the
\* string-keyed members are those that Entries lists.  None of them is a
\* function.
tAny == [js |-> "typebox", kind |-> "Any", optional |-> FALSE]
tString == [js |-> "typebox", kind |-> "String", optional |-> FALSE]
tNumber == [js |-> "typebox", kind |-> "Number", optional |-> FALSE]
tBoolean == [js |-> "typebox", kind |-> "Boolean", optional |-> FALSE]
tArray(items) ==
    [js |-> "typebox", kind |-> "Array", optional |-> FALSE, items |-> items]
tObject(properties) ==
    [js |-> "typebox", kind |-> "Object", optional |-> FALSE,
     properties |-> properties]
tOptional(schema) == [schema EXCEPT !.optional = TRUE]

\* no properties: {}
NoProperties == <<>>

\* an object with a Check function: the compiled validator of a schema
Validator(schema) == [js |-> "validator", schema |-> schema]

\* the keys of the members of a schema object
kType == <<"t", "y", "p", "e">>
kItems == <<"i", "t", "e", "m", "s">>
kProperties == <<"p", "r", "o", "p", "e", "r", "t", "i", "e", "s">>
kRequired == <<"r", "e", "q", "u", "i", "r", "e", "d">>
kDescription == <<"d", "e", "s", "c", "r", "i", "p", "t", "i", "o", "n">>

\* the type member of a schema object
typeName(schema) ==
    CASE schema.kind = "String" -> "string"
      [] schema.kind = "Number" -> "number"
      [] schema.kind = "Boolean" -> "boolean"
      [] schema.kind = "Array" -> "array"
      [] schema.kind = "Object" -> "object"

\* Object.entries(value): the entries of a plain object; of a schema
\* object its options, then type, then items or properties, then required
\* when a property is not optional; a validator has no entry that the
\* program reads
Entries(value) ==
    CASE value.js = "object" -> value.entries
      [] value.js = "typebox" ->
            LET options ==
                    IF "description" \in DOMAIN value
                    THEN <<Entry(kDescription, value.description)>>
                    ELSE <<>>
                type ==
                    IF value.kind = "Any" THEN <<>>
                    ELSE <<Entry(kType, JsString(<<typeName(value)>>))>>
                names ==
                    IF value.kind = "Object"
                    THEN SeqOf(DOMAIN value.properties) ELSE <<>>
                requiredKeys ==
                    SelectSeq(names,
                              LAMBDA k : ~value.properties[k].optional)
                members ==
                    CASE value.kind = "Array" ->
                            <<Entry(kItems, value.items)>>
                      [] value.kind = "Object" ->
                            <<Entry(kProperties,
                                    JsObject([i \in 1..Len(names) |->
                                        Entry(names[i],
                                              value.properties[names[i]])]))>>
                            \o IF requiredKeys = <<>> THEN <<>>
                               ELSE <<Entry(kRequired,
                                            JsArray([i \in 1..Len(requiredKeys)
                                                |-> JsString(requiredKeys[i])]))>>
                      [] OTHER -> <<>>
            IN  options \o type \o members
      [] OTHER -> <<>>

\* Object.keys(obj) as a set, and obj[key]
Keys(obj) == {Entries(obj)[i].key : i \in 1..Len(Entries(obj))}
Get(obj, key) ==
    IF key \notin Keys(obj) THEN JsUndefined
    ELSE LET es == Entries(obj)
             k == CHOOSE i \in 1..Len(es) :
                      /\ es[i].key = key
                      /\ \A j \in (i + 1)..Len(es) : es[j].key # key
         IN  es[k].value

\* value && typeof value === "object" && typeof value.Check === "function"
isTypeBoxSchema(value) == value.js = "validator"

\* the engine validating a value against a schema: every property of an
\* Object schema is present and valid, or absent and optional
RECURSIVE Check(_, _)
Check(schema, v) ==
    CASE schema.kind = "Any" -> TRUE
      [] schema.kind = "String" -> v.js = "string"
      [] schema.kind = "Number" -> v.js = "number"
      [] schema.kind = "Boolean" -> v.js = "boolean"
      [] schema.kind = "Array" ->
            /\ v.js = "array"
            /\ \A i \in 1..Len(v.items) : Check(schema.items, v.items[i])
      [] schema.kind = "Object" ->
            /\ v.js = "object"
            /\ \A k \in DOMAIN schema.properties :
                  IF k \in Keys(v) THEN Check(schema.properties[k], Get(v, k))
                  ELSE schema.properties[k].optional

\* ------------------------------------------------------------ schema utils

\* the t.X({description: param.description}) of buildTypeBoxSchema
withOptions(schema, param) == [description |-> param.description] @@ schema

\* switch (param.type) of buildTypeBoxSchema
paramType(param) ==
    CASE param.type = "string" -> withOptions(tString, param)
      [] param.type = "number" -> withOptions(tNumber, param)
      [] param.type = "boolean" -> withOptions(tBoolean, param)
      [] param.type = "array" -> withOptions(tArray(tAny), param)
      [] param.type = "object" -> withOptions(tObject(NoProperties), param)
      [] OTHER -> withOptions(tAny, param)

\* paramOptional looking at required only
paramOptionalRequiredOnly(param) == ~Truthy(param.required)

\* !param.required || param.default !== undefined
paramOptional(param) ==
    ~Truthy(param.required) \/ param.default # JsUndefined

\* the schema buildTypeBoxSchema stores under param.name
paramSchema(param) ==
    IF paramOptional(param) THEN tOptional(paramType(param))
    ELSE paramType(param)

\* the last element of params named name: a later assignment to
\* properties[param.name] replaces an earlier one
LastNamed(params, name) ==
    LET k == CHOOSE i \in 1..Len(params) :
                 /\ params[i].name = name
                 /\ \A j \in (i + 1)..Len(params) : params[j].name # name
    IN  params[k]

\* buildTypeBoxSchema(params): t.Object(properties)
buildTypeBoxSchema(params) ==
    tObject([name \in {params[i].name : i \in 1..Len(params)} |->
                paramSchema(LastNamed(params, name))])

\* {type: "object"} and {type: "array", items: {type: "object"}}
GenericObject == [type |-> "object"]
ArrayOfObjects == [type |-> "array", items |-> [type |-> "object"]]

\* the property convertToOpenAPISchema infers from a value of the object
inferProperty(value) ==
    CASE value.js \in {"null", "undefined"} -> [type |-> "string"]
      [] value.js = "number" -> [type |-> "number"]
      [] value.js = "boolean" -> [type |-> "boolean"]
      [] value.js = "array" -> ArrayOfObjects
      [] typeof(value) = "object" -> GenericObject
      [] OTHER -> [type |-> "string"]

\* convertToOpenAPISchema(schemasResponse)
convertToOpenAPISchema(schemasResponse) ==
    IF isTypeBoxSchema(schemasResponse) THEN schemasResponse
    ELSE IF schemasResponse.js = "array" THEN ArrayOfObjects
    ELSE IF Truthy(schemasResponse) /\ typeof(schemasResponse) = "object"
    THEN [type |-> "object",
          properties |-> [key \in Keys(schemasResponse) |->
                             inferProperty(Get(schemasResponse, key))]]
    ELSE GenericObject

\* key.startsWith('!') and isRequired ? key.slice(1) : key
isRequired(key) == key # <<>> /\ key[1] = "!"
cleanKey(key) == IF isRequired(key) THEN Tail(key) ELSE key

\* tokenOpenAPI documenting every token as a string
tokenOpenAPIAllString(type) == [type |-> "string"]

\* the switch (type.toLowerCase()) of convertSchemaDefinitionToOpenAPI
tokenOpenAPI(type) ==
    CASE LowerText(type.text) = <<"number">> -> [type |-> "number"]
      [] LowerText(type.text) = <<"string">> -> [type |-> "string"]
      [] LowerText(type.text) = <<"boolean">> -> [type |-> "boolean"]
      [] LowerText(type.text) = <<"array">> -> ArrayOfObjects
      [] LowerText(type.text) = <<"object">> -> GenericObject
      [] OTHER -> [type |-> "string"]

\* the entries of a schema definition that assign properties[cleanKey]: a
\* nested object or a string
AssignsProperty(e) ==
    \/ e.value.js = "string"
    \/ typeof(e.value) = "object" /\ e.value.js # "array"

\* the last entry among es that assigns the property name
LastAssigning(es, name) ==
    LET k == CHOOSE i \in 1..Len(es) :
                 /\ AssignsProperty(es[i]) /\ cleanKey(es[i].key) = name
                 /\ \A j \in (i + 1)..Len(es) :
                       ~(AssignsProperty(es[j]) /\ cleanKey(es[j].key) = name)
    IN  es[k]

\* the required list: the clean key of every marked entry, in order
requiredList(es) ==
    LET marked == SelectSeq(es, LAMBDA e : isRequired(e.key))
    IN  [i \in 1..Len(marked) |-> cleanKey(marked[i].key)]

\* convertSchemaDefinitionToOpenAPI raises a TypeError when a value of the
\* definition, at any depth, is null: typeof null is "object", and
\* Object.entries(null) raises
RECURSIVE convertSchemaDefinitionToOpenAPIThrows(_)
convertSchemaDefinitionToOpenAPIThrows(schemaDefinition) ==
    LET es == Entries(schemaDefinition)
    IN  \E i \in 1..Len(es) :
            \/ es[i].value.js = "null"
            \/ /\ typeof(es[i].value) = "object"
               /\ es[i].value.js \notin {"array", "null"}
               /\ convertSchemaDefinitionToOpenAPIThrows(es[i].value)

\* convertSchemaDefinitionToOpenAPI(schemaDefinition): {type, properties}
\* and, when it is not empty, required
RECURSIVE convertSchemaDefinitionToOpenAPI(_)
convertSchemaDefinitionToOpenAPI(schemaDefinition) ==
    LET es == Entries(schemaDefinition)
        names == {cleanKey(es[i].key) :
                     i \in {j \in 1..Len(es) : AssignsProperty(es[j])}}
        nested(type) ==
            LET nestedResult == convertSchemaDefinitionToOpenAPI(type)
            IN  IF "required" \in DOMAIN nestedResult
                THEN [type |-> "object",
                      properties |-> nestedResult.properties,
                      required |-> nestedResult.required]
                ELSE [type |-> "object",
                      properties |-> nestedResult.properties]
        property(e) ==
            IF e.value.js = "string" THEN tokenOpenAPI(e.value)
            ELSE nested(e.value)
        properties == [name \in names |-> property(LastAssigning(es, name))]
    IN  IF requiredList(es) # <<>>
        THEN [type |-> "object", properties |-> properties,
              required |-> requiredList(es)]
        ELSE [type |-> "object", properties |-> properties]

\* the switch (type.toLowerCase()) of convertSchemaToTypeBox
tokenTypeBox(type) ==
    CASE LowerText(type.text) = <<"number">> -> tNumber
      [] LowerText(type.text) = <<"string">> -> tString
      [] LowerText(type.text) = <<"boolean">> -> tBoolean
      [] LowerText(type.text) = <<"array">> -> tArray(tAny)
      [] LowerText(type.text) = <<"object">> -> tObject(NoProperties)
      [] OTHER -> tString

\* the last entry among es with the clean key name
LastKeyed(es, name) ==
    LET k == CHOOSE i \in 1..Len(es) :
                 /\ cleanKey(es[i].key) = name
                 /\ \A j \in (i + 1)..Len(es) : cleanKey(es[j].key) # name
    IN  es[k]

\* convertSchemaToTypeBox(schema)
RECURSIVE convertSchemaToTypeBox(_)
convertSchemaToTypeBox(schema) ==
    IF isTypeBoxSchema(schema) THEN schema
    ELSE IF Truthy(schema) /\ typeof(schema) = "object" /\ schema.js # "array"
    THEN LET es == Entries(schema)
             typeSchema(type) ==
                 IF typeof(type) = "object" /\ type.js # "array"
                 THEN convertSchemaToTypeBox(type)
                 ELSE IF type.js = "string" THEN tokenTypeBox(type)
                 ELSE tAny
             property(e) ==
                 IF isRequired(e.key) THEN typeSchema(e.value)
                 ELSE tOptional(typeSchema(e.value))
         IN  tObject([name \in {cleanKey(es[i].key) : i \in 1..Len(es)} |->
                         property(LastKeyed(es, name))])
    ELSE tAny

\* ---------------------------------------------------------- response utils

\* a ResponseDefinition {description, schema}
ResponseDefinition(description, schema) ==
    [js |-> "object", description |-> description, schema |-> schema]

\* status codes "200", "201", "204", "404"
c200 == <<"2", "0", "0">>
c201 == <<"2", "0", "1">>
c204 == <<"2", "0", "4">>
c404 == <<"4", "0", "4">>

\* responseSchema with the fallback under every status code
responseSchemaEveryCode(statusCode, schema, schemasResponse) ==
    IF Truthy(schema) THEN convertSchemaDefinitionToOpenAPI(schema)
    ELSE IF Truthy(schemasResponse)
    THEN convertToOpenAPISchema(schemasResponse)
    ELSE GenericObject

\* the schema buildOpenAPIResponses documents under statusCode: the
\* response's own schema, else schemasResponse under "200" and "201", else
\* {type: "object"}
responseSchema(statusCode, schema, schemasResponse) ==
    IF Truthy(schema) THEN convertSchemaDefinitionToOpenAPI(schema)
    ELSE IF Truthy(schemasResponse) /\ statusCode \in {c200, c201}
    THEN convertToOpenAPISchema(schemasResponse)
    ELSE GenericObject

\* responseObject with a description for a string entry only
responseObjectStringDescription(statusCode, response, schemasResponse) ==
    LET description ==
            IF response.js = "string" THEN response ELSE JsUndefined
        schema ==
            IF response.js = "string" THEN JsNull ELSE response.schema
    IN  [description |-> description,
         content |-> [applicationJson |->
             [schema |-> responseSchema(statusCode, schema, schemasResponse)]]]

\* the response object buildOpenAPIResponses builds for one entry
responseObject(statusCode, response, schemasResponse) ==
    LET description ==
            IF response.js = "string" THEN response ELSE response.description
        schema ==
            IF response.js = "string" THEN JsNull ELSE response.schema
    IN  [description |-> description,
         content |-> [applicationJson |->
             [schema |-> responseSchema(statusCode, schema, schemasResponse)]]]

\* buildOpenAPIResponses(responses, schemasResponse)
buildOpenAPIResponses(responses, schemasResponse) ==
    [statusCode \in Keys(responses) |->
        responseObject(statusCode, Get(responses, statusCode),
                       schemasResponse)]

\* A DocumentedRouteInput; the optional fields that are not arguments here
\* are absent.
Descriptor(m, p, auth, h, resp, req) ==
    [method |-> m, path |-> p, requiresAuth |-> auth, handler |-> h,
     summary |-> JsUndefined, description |-> JsUndefined,
     tags |-> JsUndefined, params |-> JsUndefined, schemasRequest |-> req,
     responses |-> resp, schemasResponse |-> JsUndefined]

\* responses: {"200": "ok", "404": {description: "missing"}}
ResponsesOk ==
    JsObject(<<Entry(c200, JsString(<<"ok">>)),
               Entry(c404, ResponseDefinition(JsString(<<"missing">>),
                                              JsUndefined))>>)

\* responses: {"200": null}
ResponsesNullEntry == JsObject(<<Entry(c200, JsNull)>>)

\* keys "id", "!id", "name"
kId == <<"i", "d">>
kIdMarked == <<"!", "i", "d">>
kName == <<"n", "a", "m", "e">>

\* schema definitions {id: "number"} and {"!id": "number", name: "string"}
DefId == JsObject(<<Entry(kId, JsString(<<"number">>))>>)
DefIdName ==
    JsObject(<<Entry(kIdMarked, JsString(<<"number">>)),
               Entry(kName, JsString(<<"string">>))>>)

dWho == Descriptor("GET", pathUsers, FALSE, "whoami", ResponsesOk, JsUndefined)
dMe == Descriptor("GET", pathUserId, TRUE, "whoami", ResponsesOk, JsUndefined)
dCreate ==
    Descriptor("POST", pathNoSlash, TRUE, "createUser", JsUndefined,
               JsUndefined)
dBoom ==
    Descriptor("GET", pathTwoSlash, FALSE, "boom", JsUndefined, JsUndefined)
dThrow ==
    Descriptor("DELETE", pathUserId, TRUE, "throwString", JsUndefined,
               DefIdName)
dNull ==
    Descriptor("PUT", pathUsers, FALSE, "whoami", ResponsesNullEntry,
               JsUndefined)
dTrace ==
    Descriptor("TRACE", pathUsers, FALSE, "whoami", JsUndefined, JsUndefined)

\* the descriptors Spec draws documentedRoute's argument from
Descriptors == {dWho, dMe, dBoom, dNull, dTrace}

\* the (method, path, handler) triples Spec draws route's arguments from
RawCalls ==
    { [method |-> "GET", path |-> pathTwoSlash, handler |-> "boom"],
      [method |-> "POST", path |-> pathUsers, handler |-> "whoami"] }

\* buildOpenAPIResponses reads response.description of every entry that is
\* not a string: a null or undefined entry raises a TypeError, and so does
\* the conversion of an entry's schema that holds null.
buildOpenAPIResponsesThrows(resp) ==
    \E i \in 1..Len(resp.entries) :
        LET response == resp.entries[i].value
        IN  \/ response.js \in {"null", "undefined"}
            \/ /\ response.js # "string"
               /\ Truthy(response.schema)
               /\ convertSchemaDefinitionToOpenAPIThrows(response.schema)

\* buildRouteSchema raises exactly when building the responses raises
buildRouteSchemaThrows(d) ==
    Truthy(d.responses) /\ buildOpenAPIResponsesThrows(d.responses)

\* `${input.method} ${input.path}`
methodAndPath(input) == JsString(<<input.method, " ">> \o input.path)

\* summary: input.summary || input.description || `${method} ${path}`
detailSummary(input) ==
    IF Truthy(input.summary) THEN input.summary
    ELSE IF Truthy(input.description) THEN input.description
    ELSE methodAndPath(input)

\* tags: input.tags || []
detailTags(input) == IF Truthy(input.tags) THEN input.tags ELSE JsArray(<<>>)

\* locationSchema with a schema for a location without parameters
locationSchemaAlways(input, in) ==
    IF Truthy(input.params)
    THEN buildTypeBoxSchema(SelectSeq(input.params.items,
                                      LAMBDA p : p.in = in))
    ELSE JsUndefined

\* schema.query / schema.params / schema.headers: the schema of the
\* parameters whose `in` is the location, when there is one
locationSchema(input, in) ==
    IF Truthy(input.params)
       /\ SelectSeq(input.params.items, LAMBDA p : p.in = in) # <<>>
    THEN buildTypeBoxSchema(SelectSeq(input.params.items,
                                      LAMBDA p : p.in = in))
    ELSE JsUndefined

\* schema.body: an explicit schemasRequest, else t.Any() for POST, PUT and
\* PATCH
bodySchema(input) ==
    IF Truthy(input.schemasRequest)
    THEN IF isTypeBoxSchema(input.schemasRequest) THEN input.schemasRequest
         ELSE convertSchemaToTypeBox(input.schemasRequest)
    ELSE IF input.method \in {"POST", "PUT", "PATCH"} THEN tAny
    ELSE JsUndefined

\* schema.detail.responses
detailResponses(input) ==
    IF Truthy(input.responses)
    THEN buildOpenAPIResponses(input.responses, input.schemasResponse)
    ELSE JsUndefined

\* buildRouteSchema(input); hide is false (detail has no hide key) and
\* documented is true (detail has summary, description and tags)
buildRouteSchema(input) ==
    [detail |-> [hide |-> FALSE, documented |-> TRUE,
                 summary |-> detailSummary(input),
                 description |-> input.description,
                 tags |-> detailTags(input),
                 responses |-> detailResponses(input)],
     query |-> locationSchema(input, "query"),
     params |-> locationSchema(input, "path"),
     headers |-> locationSchema(input, "header"),
     body |-> bodySchema(input)]

\* RawSchema without the hide flag
RawSchemaVisible ==
    [detail |-> [hide |-> FALSE, documented |-> FALSE], body |-> JsUndefined]

\* the third argument route passes to the engine: {detail: {hide: true}}
RawSchema ==
    [detail |-> [hide |-> TRUE, documented |-> FALSE], body |-> JsUndefined]

\* what app.get / app.post / ... record: the method, the resolved path, the
\* handler (wrapped: wrapHandler(input); not wrapped: the caller's own) and
\* the schema object
EngineRoute(m, p, wrapped, auth, h, schema) ==
    [method |-> m, path |-> p, wrapped |-> wrapped, requiresAuth |-> auth,
     handler |-> h, schema |-> schema]

\* PushRoute with unshift in place of push
PushRouteFront(rs, d) == <<d>> \o rs

\* this.routes.push(input)
PushRoute(rs, d) == Append(rs, d)

\* the switch of documentedRoute: a matching case registers the wrapped
\* handler and the compiled schema at the resolved path
documentedRouteEngine(eng, base, d) ==
    IF toLowerCase(d.method) \in SwitchCases
    THEN Append(eng, EngineRoute(toLowerCase(d.method), fullPath(base, d.path),
                                 TRUE, d.requiresAuth, d.handler,
                                 buildRouteSchema(d)))
    ELSE eng

\* the switch of route: a matching case registers the caller's handler with
\* {detail: {hide: true}}
routeEngine(eng, base, m, p, h) ==
    IF toLowerCase(m) \in SwitchCases
    THEN Append(eng, EngineRoute(toLowerCase(m), fullPath(base, p),
                                 FALSE, FALSE, h, RawSchema))
    ELSE eng

\* getRoutes returns this.routes
getRoutes(rs) == rs

Call(op, threw, self, list) ==
    [op |-> op, threw |-> threw, self |-> self, list |-> list]

NoCall == Call("none", FALSE, FALSE, <<>>)

\* ------------------------------------------------------------------ listen

\* a JavaScript number | NaN | undefined
Num(n) == [kind |-> "number", n |-> n]
NaN == [kind |-> "NaN", n |-> 0]
Undefined == [kind |-> "undefined", n |-> 0]

DigitValue(ch) ==
    CASE ch = "0" -> 0 [] ch = "1" -> 1 [] ch = "2" -> 2 [] ch = "3" -> 3
      [] ch = "4" -> 4 [] ch = "5" -> 5 [] ch = "6" -> 6 [] ch = "7" -> 7
      [] ch = "8" -> 8 [] ch = "9" -> 9 [] OTHER -> -1

\* the value of the longest prefix of decimal digits of s, continuing acc
RECURSIVE DigitsPrefix(_, _)
DigitsPrefix(s, acc) ==
    IF s = <<>> \/ DigitValue(s[1]) < 0 THEN acc
    ELSE DigitsPrefix(Tail(s), 10 * acc + DigitValue(s[1]))

RECURSIVE SkipSpaces(_)
SkipSpaces(s) == IF s # <<>> /\ s[1] = " " THEN SkipSpaces(Tail(s)) ELSE s

\* parseInt(s, 10): leading white space skipped, an optional sign, then the
\* longest run of decimal digits; NaN when there is no digit
parseInt(s) ==
    LET t == SkipSpaces(s)
        neg == t # <<>> /\ t[1] = "-"
        u == IF t # <<>> /\ t[1] \in {"-", "+"} THEN Tail(t) ELSE t
    IN  IF u = <<>> \/ DigitValue(u[1]) < 0 THEN NaN
        ELSE Num(IF neg THEN 0 - DigitsPrefix(u, 0) ELSE DigitsPrefix(u, 0))

\* s.split(':'): the pieces of s between the colons
RECURSIVE split(_)
split(s) ==
    IF \A i \in 1..Len(s) : s[i] # ":" THEN <<s>>
    ELSE LET k == CHOOSE i \in 1..Len(s) :
                      s[i] = ":" /\ \A j \in 1..(i - 1) : s[j] # ":"
         IN  <<SubSeq(s, 1, k - 1)>> \o split(SubSeq(s, k + 1, Len(s)))

\* host: config.host || "localhost"
ConfigHost(h) ==
    IF h = <<>> THEN <<"l", "o", "c", "a", "l", "h", "o", "s", "t">> ELSE h

\* hostParts.length > 1 && hostParts[1] ? parseInt(hostParts[1], 10) : undefined
hostPortNum(h) ==
    LET hostParts == split(ConfigHost(h))
    IN  IF Len(hostParts) > 1 /\ hostParts[2] # <<>>
        THEN parseInt(hostParts[2]) ELSE Undefined

\* hostPortNum ?? port ?? 8080
ResolvePort(h, port) ==
    IF hostPortNum(h).kind # "undefined" THEN hostPortNum(h)
    ELSE IF port.kind # "undefined" THEN port
    ELSE Num(8080)

\* config.host values of Spec: "" (defaults to "localhost")
SpecHosts == { <<>> }

\* the port arguments of listen: none, 9
PortArgs == { Undefined, Num(9) }

\* config.host values of SpecListen: "", "h", "h:3", "h:", "h:x",
\* "http://h:3"
ListenHosts ==
    { <<>>, <<"h">>, <<"h", ":", "3">>, <<"h", ":">>, <<"h", ":", "x">>,
      <<"h", "t", "t", "p", ":", "/", "/", "h", ":", "3">> }

\* the port arguments of SpecListen: none, 9, 0
ListenPortArgs == PortArgs \cup { Num(0) }

\* what app.listen(listenPort, callback) does before listen returns: it
\* raises, it returns with the socket still to be bound, or it binds the
\* socket and runs the callback before it returns
ListenOutcomes == {"raises", "returns", "ready"}

\* listenPromise with resolve() called as soon as app.listen has returned
listenPromiseEager(outcome) ==
    IF outcome = "raises" THEN "rejected" ELSE "resolved"

\* new Promise((resolve, reject) => { try { ... app.listen(listenPort,
\* callback) } catch (error) { reject(error) } }): rejected when app.listen
\* raises, resolved when the callback has run already, otherwise pending,
\* resolve() being called by the callback only
listenPromise(outcome) ==
    CASE outcome = "raises" -> "rejected"
      [] outcome = "ready" -> "resolved"
      [] OTHER -> "pending"

\* the socket of an app.listen call when app.listen has raised or returned
listenSocket(outcome) ==
    CASE outcome = "raises" -> "failed"
      [] outcome = "ready" -> "bound"
      [] OTHER -> "binding"

\* resolve() / reject() of a promise: only a pending promise changes
settle(p, outcome) == IF p = "pending" THEN outcome ELSE p

\* Values the engine may hand to the onError hook as `error`: an Error
\* object with a message, a string, null.  Texts are sequences of pieces.
ThrownError(m) == [kind |-> "Error", message |-> m, value |-> <<>>]
ThrownString(v) == [kind |-> "string", message |-> <<>>, value |-> v]
ThrownNull == [kind |-> "null", message |-> <<>>, value |-> <<>>]

EngineErrors ==
    { ThrownError(<<"bad">>), ThrownError(<<>>), ThrownString(<<"oops">>),
      ThrownNull }

\* the `code` the engine hands to the onError hook
EngineCodes == { "UNKNOWN", "VALIDATION", "NOT_FOUND" }

\* String(error)
String(error) ==
    CASE error.kind = "string" -> error.value
      [] error.kind = "null" -> <<"null">>
      [] error.kind = "Error" ->
            IF error.message = <<>> THEN <<"Error">>
            ELSE <<"Error: ">> \o error.message

\* onErrorMessage without the instanceof test
onErrorMessageUntested(error) == error.message

\* error instanceof Error ? error.message : String(error)
onErrorMessage(error) ==
    IF error.kind = "Error" THEN error.message ELSE String(error)

\* no engine-level error has been answered
NoResponse ==
    [status |-> 0, code |-> "", error |-> ThrownNull,
     body |-> [code |-> "", message |-> <<>>]]

\* the hook listen binds with app.onError: new Response(JSON.stringify(
\* {code, message}), {status: 400}); code and error are kept as history
onErrorResponse(code, error) ==
    [status |-> 400, code |-> code, error |-> error,
     body |-> [code |-> code, message |-> onErrorMessage(error)]]

\* ---------------------------------------------------------------- requests

\* an Authorization header: none, or one with a value
NoHeader == [present |-> FALSE, value |-> <<>>]
Header(v) == [present |-> TRUE, value |-> v]

BearerPrefix == <<"B", "e", "a", "r", "e", "r", " ">>

\* the Authorization header lines of the requests as they are sent: absent,
\* "" (empty), "Bearer " (empty token), "bearer g", "Bearer g", " Bearer g",
\* "Bearer g ", "Bearer a", "Bearer x", "Bearer t"
AuthHeaders ==
    { NoHeader,
      Header(<<>>),
      Header(BearerPrefix),
      Header(<<"b", "e", "a", "r", "e", "r", " ", "g">>),
      Header(BearerPrefix \o <<"g">>),
      Header(<<" ">> \o BearerPrefix \o <<"g">>),
      Header(BearerPrefix \o <<"g", " ">>),
      Header(BearerPrefix \o <<"a">>),
      Header(BearerPrefix \o <<"x">>),
      Header(BearerPrefix \o <<"t">>) }

\* a header value without its leading and trailing white space
RECURSIVE trimStart(_)
trimStart(s) ==
    IF s # <<>> /\ Head(s) = " " THEN trimStart(Tail(s)) ELSE s

RECURSIVE trimEnd(_)
trimEnd(s) ==
    IF s # <<>> /\ s[Len(s)] = " " THEN trimEnd(SubSeq(s, 1, Len(s) - 1))
    ELSE s

\* request.headers.get("Authorization"): null when the request has no such
\* header, else the value of the header line, which the Headers object of a
\* Request keeps without leading and trailing white space
headersGet(h) ==
    IF h.present THEN Header(trimEnd(trimStart(h.value))) ELSE NoHeader

\* s.startsWith(prefix)
startsWith(s, prefix) ==
    Len(s) >= Len(prefix) /\ SubSeq(s, 1, Len(prefix)) = prefix

\* s.substring(n)
substring(s, n) == SubSeq(s, n + 1, Len(s))

\* authHeaderOk without the startsWith test: any non-empty header passes
authHeaderOkAnyScheme(h) == h.present /\ h.value # <<>>

\* !(!authHeader || !authHeader.startsWith("Bearer ")): null and "" are falsy
authHeaderOk(h) ==
    h.present /\ h.value # <<>> /\ startsWith(h.value, BearerPrefix)

\* jwt.verify(token) of the JWT collaborator: a decoded payload, false, or
\* a raised error.  Token "g" decodes to alice, "a" to admin, "t" makes
\* verify raise, every other token is rejected with false.
jwtVerify(token) ==
    CASE token = <<"g">> -> [kind |-> "payload", payload |-> "alice"]
      [] token = <<"a">> -> [kind |-> "payload", payload |-> "admin"]
      [] token = <<"t">> -> [kind |-> "throw", payload |-> ""]
      [] OTHER -> [kind |-> "false", payload |-> ""]

\* A route handler run with the context's principal: what it sets
\* context.set.status to (0: it leaves the status alone), and the value it
\* returns or the value it raises (isError: an Error object with message).
Returned(status, value) ==
    [threw |-> FALSE, isError |-> FALSE, message |-> "", status |-> status,
     value |-> value]
Raised(status, isError, message) ==
    [threw |-> TRUE, isError |-> isError, message |-> message,
     status |-> status, value |-> ""]

handlerRun(h, user) ==
    CASE h = "whoami" -> Returned(0, user)
      [] h = "createUser" -> Returned(201, "created")
      [] h = "boom" -> Raised(0, TRUE, "boom")
      [] h = "throwString" -> Raised(418, FALSE, "oops")
      [] OTHER -> Returned(0, "")

\* a response body: {error, message} built by the wrapper, or the value the
\* handler returned
ErrorBody(error, message) == [error |-> error, message |-> message, value |-> ""]
ValueBody(v) == [error |-> "", message |-> "", value |-> v]
NoBody == ErrorBody("", "")

\* A fresh slot.  pc: idle, verifying (awaiting jwt.verify), invoking
\* (awaiting the handler), DONE, UNAUTHORIZED, HANDLER_ERROR, ENGINE_ERROR
\* (the error left the handler uncaught).  status 0: context.set.status not
\* assigned.  user "": context.user not assigned.
IdleCtx ==
    [pc |-> "idle", route |-> 0, auth |-> NoHeader, status |-> 0, user |-> "",
     body |-> NoBody, verifyCalls |-> 0, handlerCalls |-> 0, seenUser |-> ""]

\* -------------------------------------------------------------- wrapHandler

\* context.set.status = 401; return {error: "Unauthorized", message}
unauthorized(c, message) ==
    [c EXCEPT !.status = 401, !.body = ErrorBody("Unauthorized", message),
              !.pc = "UNAUTHORIZED"]

\* input.handler(context) is called: the handler reads the principal the
\* context holds at that moment
invokeHandler(c) ==
    [c EXCEPT !.handlerCalls = @ + 1, !.seenUser = c.user, !.pc = "invoking"]

\* attachUser with the assignment left out
attachUserDropped(c, payload) == c

\* (context as any).user = payload
attachUser(c, payload) == [c EXCEPT !.user = payload]

\* (context as any).jwt.verify(token) is called
callVerify(c) == [c EXCEPT !.verifyCalls = @ + 1, !.pc = "verifying"]

\* the wrapped handler up to its first await
wrapHandlerStart(c, e) ==
    IF e.requiresAuth
    THEN IF ~authHeaderOk(c.auth)
         THEN unauthorized(c, "Missing or invalid token")
         ELSE callVerify(c)
    ELSE invokeHandler(c)

\* wrapHandlerVerified without the `if (!payload)` test
wrapHandlerVerifiedNoFalsyTest(c, res) ==
    IF res.kind = "throw" THEN unauthorized(c, "Token verification failed")
    ELSE invokeHandler(attachUser(c, res.payload))

\* the wrapped handler resumed with the outcome of jwt.verify
wrapHandlerVerified(c, res) ==
    IF res.kind = "throw" THEN unauthorized(c, "Token verification failed")
    ELSE IF res.kind = "false" THEN unauthorized(c, "Invalid or expired token")
    ELSE invokeHandler(attachUser(c, res.payload))

\* what the handler itself did to context.set.status while it ran
handlerEffect(c, out) ==
    IF out.status # 0 THEN [c EXCEPT !.status = out.status] ELSE c

\* errorMessage without the instanceof test
errorMessageUntested(out) == out.message

\* error instanceof Error ? error.message : "Unknown error"
errorMessage(out) == IF out.isError THEN out.message ELSE "Unknown error"

\* handlerReturned with the status forced to 200
handlerReturnedOk(c, out) ==
    [c EXCEPT !.status = 200, !.body = ValueBody(out.value), !.pc = "DONE"]

\* return await input.handler(context)
handlerReturned(c, out) ==
    [c EXCEPT !.body = ValueBody(out.value), !.pc = "DONE"]

\* handlerRaised calling the handler a second time before giving up
handlerRaisedRetry(c, out) ==
    IF c.handlerCalls < 2 THEN invokeHandler(c)
    ELSE [c EXCEPT !.status = 500,
                   !.body = ErrorBody("Internal Server Error",
                                      errorMessage(out)),
                   !.pc = "HANDLER_ERROR"]

\* catch (error): status 500 and the Internal Server Error body
handlerRaised(c, out) ==
    [c EXCEPT !.status = 500,
              !.body = ErrorBody("Internal Server Error", errorMessage(out)),
              !.pc = "HANDLER_ERROR"]

\* the wrapped handler resumed with the outcome of the route's handler
wrapHandlerSettled(c, out) ==
    IF out.threw THEN handlerRaised(handlerEffect(c, out), out)
    ELSE handlerReturned(handlerEffect(c, out), out)

\* a handler registered by route is the engine's own callee: its value is
\* the response, its error leaves it uncaught
rawSettled(c, out) ==
    IF out.threw THEN [handlerEffect(c, out) EXCEPT !.pc = "ENGINE_ERROR"]
    ELSE handlerReturned(handlerEffect(c, out), out)

\* StoreContext with the principal and the status kept in one place shared
\* by all requests in flight
StoreContextShared(cs, r, c) ==
    [q \in DOMAIN cs |->
        IF q = r THEN c
        ELSE IF cs[q].pc = "idle" THEN cs[q]
        ELSE [cs[q] EXCEPT !.user = c.user, !.status = c.status]]

\* each call of the wrapped handler works on the context it was given
StoreContext(cs, r, c) == [cs EXCEPT ![r] = c]

Terminal == {"DONE", "UNAUTHORIZED", "HANDLER_ERROR", "ENGINE_ERROR"}

\* --------------------------------------------------------------- rate limit

\* Date.now() advances by TickMs; the clock is followed for MaxTicks ticks
\* and the middleware for MaxLog requests
TickMs == 500
MaxTicks == 4
MaxLog == 4
\* the largest maxRequests a middleware is set up with
MaxLimit == 2
\* the windowMs a middleware is set up with
Windows == {1000}

\* no middleware has been set up
NoLimiter == [maxRequests |-> 0]

\* setupRateLimitMiddleware(maxRequests, windowMs): an empty requestCounts
\* map in the closure; now is Date.now(), log the answer to every request
setupRateLimitMiddleware(maxRequests, windowMs) ==
    [maxRequests |-> maxRequests, windowMs |-> windowMs,
     requestCounts |-> <<>>, now |-> 0, log |-> <<>>]

\* the x-forwarded-for headers of the requests: none, "a", "b", "a,b"
Forwardeds == {JsNull, JsString(<<"a">>), JsString(<<"b">>),
               JsString(<<"a", ",", "b">>)}

\* text.split(",")[0]: the text before the first comma
RECURSIVE splitFirst(_)
splitFirst(text) ==
    IF text = <<>> \/ text[1] = "," THEN <<>>
    ELSE <<text[1]>> \o splitFirst(Tail(text))

\* forwarded ? forwarded.split(",")[0] : "unknown"
clientIp(forwarded) ==
    IF Truthy(forwarded) THEN splitFirst(forwarded.text)
    ELSE <<"unknown">>

\* windowExpired with >= in place of >
windowExpiredAtReset(record, now) == now >= record.resetTime

\* now > record.resetTime
windowExpired(record, now) == now > record.resetTime

\* Math.ceil(ms / 1000) of a non-negative number of milliseconds
ceilSeconds(ms) == (ms + 999) \div 1000

\* the request passes: the handler returns undefined and leaves set.status
Passed == [status |-> 0, seconds |-> 0]

\* status 429 with the body {error: "Too Many Requests", message: "Rate
\* limit exceeded. Try again in <seconds> seconds."}
TooManyRequests(seconds) == [status |-> 429, seconds |-> seconds]

\* the onBeforeHandle handler for a request with the header forwarded: the
\* map and the answer after it
onBeforeHandle(l, forwarded) ==
    LET ip == clientIp(forwarded)
        counts == l.requestCounts
    IN  IF ip \notin DOMAIN counts \/ windowExpired(counts[ip], l.now)
        THEN [requestCounts |->
                  [k \in DOMAIN counts \cup {ip} |->
                      IF k = ip
                      THEN [count |-> 1, resetTime |-> l.now + l.windowMs]
                      ELSE counts[k]],
              answer |-> Passed]
        ELSE LET record == [counts[ip] EXCEPT !.count = @ + 1]
             IN  [requestCounts |-> [counts EXCEPT ![ip] = record],
                  answer |->
                      IF record.count > l.maxRequests
                      THEN TooManyRequests(ceilSeconds(record.resetTime - l.now))
                      ELSE Passed]

\* ------------------------------------------------------------------ actions

RawCount == Cardinality({i \in 1..Len(engine) : ~engine[i].wrapped})

\* no utility function has been called on its own
NoArg == [fn |-> "none"]
NoResult == [fn |-> "none"]

CallsMade == Len(passed) + RawCount

\* the lowest free request slot
FreeSlot(r) ==
    /\ ctx[r].pc = "idle"
    /\ \A q \in ReqIds : q < r => ctx[q].pc # "idle"

\* api.documentedRoute(d)
Register(d) ==
    /\ CallsMade < MaxCalls
    /\ routes' = PushRoute(routes, d)
    /\ passed' = Append(passed, d)
    /\ IF buildRouteSchemaThrows(d)
       THEN /\ engine' = engine
            /\ lastCall' = Call("documentedRoute", TRUE, FALSE, <<>>)
       ELSE /\ engine' = documentedRouteEngine(engine, basePath, d)
            /\ lastCall' = Call("documentedRoute", FALSE, TRUE, <<>>)
    /\ UNCHANGED <<basePath, host, onErrorHooks, listenPort, promise, ctx>>
    /\ UNCHANGED auxVars

\* api.route(method, path, handler)
RegisterRaw(rc) ==
    /\ CallsMade < MaxCalls
    /\ engine' = routeEngine(engine, basePath, rc.method, rc.path, rc.handler)
    /\ lastCall' = Call("route", FALSE, TRUE, <<>>)
    /\ UNCHANGED <<basePath, routes, passed, host, onErrorHooks, listenPort,
                   promise, ctx>>
    /\ UNCHANGED auxVars

\* api.getRoutes()
List ==
    /\ lastCall' = Call("getRoutes", FALSE, FALSE, getRoutes(routes))
    /\ UNCHANGED <<basePath, routes, engine, passed, host, onErrorHooks,
                   listenPort, promise, ctx>>
    /\ UNCHANGED auxVars

\* the app.listen calls whose socket is bound
Serving == {i \in DOMAIN socket : socket[i] = "bound"}

Last(S) == CHOOSE i \in S : \A j \in S : j <= i

\* api.listen(port): the port is resolved, one more onError hook is bound,
\* app.listen is called; app.listen raises (the promise is rejected),
\* returns with the socket still to be bound (the promise stays pending
\* until the engine calls back), or has bound the socket and run the
\* callback when it returns (the promise is resolved).  A call made after
\* an earlier one does the same again.
Listen(port, outcome) ==
    /\ Len(promise) < MaxListens
    /\ portArg' = Append(portArg, port)
    /\ listenPort' = Append(listenPort, ResolvePort(host, port))
    /\ onErrorHooks' = onErrorHooks + 1
    /\ socket' = Append(socket, listenSocket(outcome))
    /\ promise' = Append(promise, listenPromise(outcome))
    /\ lastCall' = Call("listen", FALSE, FALSE, <<>>)
    /\ UNCHANGED <<basePath, routes, engine, passed, host, ctx>>
    /\ UNCHANGED <<errorResponse, fnArg, fnResult, limiter>>

\* the engine has bound the socket of the i-th app.listen call and runs its
\* callback: resolve()
ListenReady(i) ==
    /\ i \in DOMAIN socket
    /\ socket[i] = "binding"
    /\ socket' = [socket EXCEPT ![i] = "bound"]
    /\ promise' = [promise EXCEPT ![i] = settle(@, "resolved")]
    /\ UNCHANGED <<basePath, routes, engine, passed, lastCall, host,
                   onErrorHooks, listenPort, ctx>>
    /\ UNCHANGED <<portArg, errorResponse, fnArg, fnResult, limiter>>

\* the engine fails to bind after app.listen has returned: listen gave the
\* engine the ready callback only, so nothing of the registry runs
BindFailsLate(i) ==
    /\ i \in DOMAIN socket
    /\ socket[i] = "binding"
    /\ socket' = [socket EXCEPT ![i] = "failed"]
    /\ UNCHANGED <<basePath, routes, engine, passed, lastCall, host,
                   onErrorHooks, listenPort, promise, ctx>>
    /\ UNCHANGED <<portArg, errorResponse, fnArg, fnResult, limiter>>

\* api.stop(): this.app.stop().  The engine closes the socket of the server
\* it started last and still runs; with no server running app.stop either
\* raises or returns.
Stop(raises) ==
    /\ Serving # {} => ~raises
    /\ socket' = IF Serving # {}
                 THEN [socket EXCEPT ![Last(Serving)] = "closed"]
                 ELSE socket
    /\ lastCall' = Call("stop", raises, FALSE, <<>>)
    /\ UNCHANGED <<basePath, routes, engine, passed, host, onErrorHooks,
                   listenPort, promise, ctx>>
    /\ UNCHANGED <<portArg, errorResponse, fnArg, fnResult, limiter>>

\* while serving, the engine meets an uncaught error and calls the hook
\* bound with app.onError
EngineError(code, error) ==
    /\ Serving # {}
    /\ onErrorHooks > 0
    /\ errorResponse' = onErrorResponse(code, error)
    /\ UNCHANGED <<basePath, routes, engine, passed, lastCall, host,
                   onErrorHooks, listenPort, promise, ctx>>
    /\ UNCHANGED <<portArg, socket, fnArg, fnResult, limiter>>

\* the engine routes a request sent with Authorization header h to its i-th
\* route and calls that route's handler with a new context, whose request
\* gives the header as headers.get does
Dispatch(r, i, h) ==
    /\ FreeSlot(r)
    /\ i \in 1..Len(engine)
    /\ LET c == [IdleCtx EXCEPT !.route = i, !.auth = headersGet(h)]
       IN  ctx' = StoreContext(ctx, r,
                     IF engine[i].wrapped THEN wrapHandlerStart(c, engine[i])
                     ELSE invokeHandler(c))
    /\ UNCHANGED <<basePath, routes, engine, passed, lastCall, host,
                   onErrorHooks, listenPort, promise>>
    /\ UNCHANGED auxVars

\* jwt.verify settles and the wrapped handler resumes
VerifyDone(r) ==
    /\ ctx[r].pc = "verifying"
    /\ ctx' = StoreContext(ctx, r,
                 wrapHandlerVerified(ctx[r],
                     jwtVerify(substring(ctx[r].auth.value, 7))))
    /\ UNCHANGED <<basePath, routes, engine, passed, lastCall, host,
                   onErrorHooks, listenPort, promise>>
    /\ UNCHANGED auxVars

\* the route's handler settles and its caller resumes
HandlerDone(r) ==
    /\ ctx[r].pc = "invoking"
    /\ LET e == engine[ctx[r].route]
           out == handlerRun(e.handler, ctx[r].seenUser)
       IN  ctx' = StoreContext(ctx, r,
                     IF e.wrapped THEN wrapHandlerSettled(ctx[r], out)
                     ELSE rawSettled(ctx[r], out))
    /\ UNCHANGED <<basePath, routes, engine, passed, lastCall, host,
                   onErrorHooks, listenPort, promise>>
    /\ UNCHANGED auxVars

\* the engine has sent the response and drops the context
Respond(r) ==
    /\ ctx[r].pc \in Terminal
    /\ ctx' = [ctx EXCEPT ![r] = IdleCtx]
    /\ UNCHANGED <<basePath, routes, engine, passed, lastCall, host,
                   onErrorHooks, listenPort, promise>>
    /\ UNCHANGED auxVars

NoneInFlight == \A r \in ReqIds : ctx[r].pc = "idle"

\* ----------------------------------------------------------- specifications

\* new ApiNote(config): an empty registry
Init ==
    /\ basePath \in {ConfigBasePath(b) : b \in BasePaths}
    /\ host \in {ConfigHost(h) : h \in SpecHosts}
    /\ routes = <<>>
    /\ engine = <<>>
    /\ passed = <<>>
    /\ lastCall = NoCall
    /\ onErrorHooks = 0
    /\ listenPort = <<>>
    /\ promise = <<>>
    /\ ctx = [r \in ReqIds |-> IdleCtx]
    /\ portArg = <<>>
    /\ socket = <<>>
    /\ errorResponse = NoResponse
    /\ fnArg = NoArg
    /\ fnResult = NoResult
    /\ limiter = NoLimiter

\* the registry's operations, with listen called once and the requests
\* served one at a time
Next ==
    \/ \E d \in Descriptors : Register(d)
    \/ \E rc \in RawCalls : RegisterRaw(rc)
    \/ List
    \/ \E port \in PortArgs, outcome \in ListenOutcomes :
          promise = <<>> /\ Listen(port, outcome)
    \/ \E i \in 1..MaxListens : ListenReady(i)
    \/ \E r \in ReqIds, i \in 1..MaxCalls, h \in AuthHeaders :
          NoneInFlight /\ Dispatch(r, i, h)
    \/ \E r \in ReqIds : VerifyDone(r)
    \/ \E r \in ReqIds : HandlerDone(r)
    \/ \E r \in ReqIds : Respond(r)

Spec == Init /\ [][Next]_vars

\* the descriptors an application of the registry passes to documentedRoute
\* before it listens: with and without requiresAuth, with handlers that
\* return and handlers that raise, each on an engine route of its own
\* (get /a/u, get /a/u/i, post /au, put /a/u, delete /a/u/i)
StartupRoutes ==
    <<dWho, dMe, dCreate, [dBoom EXCEPT !.method = "PUT"], dThrow>>

\* the triple the same application passes to route: post /a/u
StartupRaw == [method |-> "POST", path |-> pathTwoSlash, handler |-> "boom"]

RECURSIVE RegisterAll(_, _, _)
RegisterAll(eng, base, ds) ==
    IF ds = <<>> THEN eng
    ELSE RegisterAll(documentedRouteEngine(eng, base, Head(ds)), base, Tail(ds))

\* a started registry: new ApiNote({basePath: "/a"}) with no custom
\* middleware, documentedRoute called with each of StartupRoutes, route with
\* StartupRaw, listen() called once and resolved
InitStarted ==
    /\ basePath = <<"/", "a">>
    /\ host = ConfigHost(<<>>)
    /\ routes = StartupRoutes
    /\ passed = StartupRoutes
    /\ engine = routeEngine(RegisterAll(<<>>, <<"/", "a">>, StartupRoutes),
                            <<"/", "a">>, StartupRaw.method, StartupRaw.path,
                            StartupRaw.handler)
    /\ lastCall = Call("listen", FALSE, FALSE, <<>>)
    /\ onErrorHooks = 1
    /\ listenPort = <<ResolvePort(ConfigHost(<<>>), Undefined)>>
    /\ promise = <<"resolved">>
    /\ ctx = [r \in ReqIds |-> IdleCtx]
    /\ portArg = <<Undefined>>
    /\ socket = <<"bound">>
    /\ errorResponse = NoResponse
    /\ fnArg = NoArg
    /\ fnResult = NoResult
    /\ limiter = NoLimiter

\* requests served concurrently by a started registry
NextRequests ==
    \/ \E r \in ReqIds, i \in 1..(Len(StartupRoutes) + 1), h \in AuthHeaders :
          Dispatch(r, i, h)
    \/ \E r \in ReqIds : VerifyDone(r)
    \/ \E r \in ReqIds : HandlerDone(r)
    \/ \E r \in ReqIds : Respond(r)

SpecRequests == InitStarted /\ [][NextRequests]_vars

\* new ApiNote(config) with one of ListenHosts as config.host
InitListen ==
    /\ basePath = ConfigBasePath(<<>>)
    /\ host \in {ConfigHost(h) : h \in ListenHosts}
    /\ routes = <<>>
    /\ engine = <<>>
    /\ passed = <<>>
    /\ lastCall = NoCall
    /\ onErrorHooks = 0
    /\ listenPort = <<>>
    /\ promise = <<>>
    /\ ctx = [r \in ReqIds |-> IdleCtx]
    /\ portArg = <<>>
    /\ socket = <<>>
    /\ errorResponse = NoResponse
    /\ fnArg = NoArg
    /\ fnResult = NoResult
    /\ limiter = NoLimiter

\* listen, stop and what the engine does after them
NextListen ==
    \/ \E port \in ListenPortArgs, outcome \in ListenOutcomes :
          Listen(port, outcome)
    \/ \E i \in 1..MaxListens : ListenReady(i)
    \/ \E i \in 1..MaxListens : BindFailsLate(i)
    \/ \E raises \in BOOLEAN : Stop(raises)
    \/ \E code \in EngineCodes, error \in EngineErrors :
          EngineError(code, error)

SpecListen == InitListen /\ [][NextListen]_vars

\* ------------------------------------------------------------------ claims

Busy == {r \in ReqIds : ctx[r].pc # "idle"}

\* the engine route a busy slot's request was dispatched to
RouteOf(r) == engine[ctx[r].route]

\* requests to a documented route that requires auth
AuthBusy == {r \in Busy : RouteOf(r).wrapped /\ RouteOf(r).requiresAuth}

\* the header is there and its first seven characters are "Bearer "
IsBearer(h) ==
    /\ h.present
    /\ Len(h.value) >= 7
    /\ \A k \in 1..7 : h.value[k] = BearerPrefix[k]

\* the token of a Bearer header and what the JWT collaborator says of it
TokenOf(r) == SubSeq(ctx[r].auth.value, 8, Len(ctx[r].auth.value))
VerifyOf(r) == jwtVerify(TokenOf(r))

\* C1: on a requiresAuth route, a request with no Authorization header or
\* one that does not start with "Bearer " ends with status 401 and the body
\* {error: "Unauthorized", message: "Missing or invalid token"}; jwt.verify
\* and the route's handler are never called for it.
C1_MissingOrMalformedHeader ==
    \A r \in AuthBusy :
        ~IsBearer(ctx[r].auth) =>
            /\ ctx[r].pc = "UNAUTHORIZED"
            /\ ctx[r].status = 401
            /\ ctx[r].body =
                   ErrorBody("Unauthorized", "Missing or invalid token")
            /\ ctx[r].verifyCalls = 0
            /\ ctx[r].handlerCalls = 0

\* a request with a header "bearer g" and one with no header at all were
\* both turned away
C1_Witness ==
    /\ \E r \in AuthBusy :
          ctx[r].auth.present /\ ~IsBearer(ctx[r].auth)
              /\ ctx[r].pc = "UNAUTHORIZED"
    /\ \E r \in AuthBusy : ~ctx[r].auth.present /\ ctx[r].pc = "UNAUTHORIZED"

\* C2: on a requiresAuth route, for a Bearer request whose verification has
\* settled: verify raised => 401 "Token verification failed"; verify
\* returned a falsy value => 401 "Invalid or expired token"; in both cases
\* error is "Unauthorized" and the handler is never called.
C2_VerificationFailure ==
    \A r \in AuthBusy :
        (IsBearer(ctx[r].auth) /\ ctx[r].pc # "verifying") =>
            /\ VerifyOf(r).kind = "throw" =>
                  /\ ctx[r].pc = "UNAUTHORIZED"
                  /\ ctx[r].status = 401
                  /\ ctx[r].body =
                         ErrorBody("Unauthorized", "Token verification failed")
                  /\ ctx[r].handlerCalls = 0
            /\ VerifyOf(r).kind = "false" =>
                  /\ ctx[r].pc = "UNAUTHORIZED"
                  /\ ctx[r].status = 401
                  /\ ctx[r].body =
                         ErrorBody("Unauthorized", "Invalid or expired token")
                  /\ ctx[r].handlerCalls = 0

\* one request was rejected because verify raised, another because verify
\* returned false
C2_Witness ==
    /\ \E r \in AuthBusy :
          IsBearer(ctx[r].auth) /\ VerifyOf(r).kind = "throw"
              /\ ctx[r].pc = "UNAUTHORIZED" /\ ctx[r].verifyCalls = 1
    /\ \E r \in AuthBusy :
          IsBearer(ctx[r].auth) /\ VerifyOf(r).kind = "false"
              /\ ctx[r].pc = "UNAUTHORIZED" /\ ctx[r].verifyCalls = 1

\* C3: on a requiresAuth route, whenever the handler has been called, the
\* payload jwt.verify returned for this request's own token was attached to
\* this request's context before the call: the handler read exactly it.
C3_PrincipalAttachedBeforeInvoke ==
    \A r \in AuthBusy :
        ctx[r].handlerCalls > 0 =>
            /\ IsBearer(ctx[r].auth)
            /\ ctx[r].verifyCalls = 1
            /\ VerifyOf(r).kind = "payload"
            /\ ctx[r].seenUser = VerifyOf(r).payload
            /\ ctx[r].user = VerifyOf(r).payload

\* two authenticated requests with different tokens are past the call of
\* their handlers, each with its own principal
C3_Witness ==
    \E r, q \in AuthBusy :
        /\ ctx[r].handlerCalls = 1 /\ ctx[r].seenUser = "alice"
        /\ ctx[q].handlerCalls = 1 /\ ctx[q].seenUser = "admin"
        /\ ctx[q].pc = "DONE" /\ ctx[q].body = ValueBody("admin")

\* the request passed the auth check of its route
Authenticated(r) == IsBearer(ctx[r].auth) /\ VerifyOf(r).kind = "payload"

\* C4: the route's handler is called at most once per request; a finished
\* request to a documented route ended as DONE, UNAUTHORIZED or
\* HANDLER_ERROR; its handler was called exactly once when the route does
\* not require auth or the auth check succeeded, and not at all otherwise.
C4_AtMostOneInvocation ==
    \A r \in Busy :
        /\ ctx[r].handlerCalls <= 1
        /\ (RouteOf(r).wrapped /\ ctx[r].pc \in Terminal) =>
              /\ ctx[r].pc \in {"DONE", "UNAUTHORIZED", "HANDLER_ERROR"}
              /\ (~RouteOf(r).requiresAuth \/ Authenticated(r))
                    <=> ctx[r].handlerCalls = 1
              /\ ctx[r].pc = "UNAUTHORIZED" <=> ctx[r].handlerCalls = 0

\* one request ended after its handler raised, another was turned away
C4_Witness ==
    /\ \E r \in Busy :
          RouteOf(r).wrapped /\ ctx[r].pc = "HANDLER_ERROR"
              /\ ctx[r].handlerCalls = 1
    /\ \E r \in Busy :
          RouteOf(r).wrapped /\ ctx[r].pc = "UNAUTHORIZED"
              /\ ctx[r].handlerCalls = 0

\* what the handler of a busy slot's route does with the principal it read
OutcomeOf(r) == handlerRun(RouteOf(r).handler, ctx[r].seenUser)

\* C5: when the route's handler raises, the wrapped handler does not let the
\* error through: status 500 and {error: "Internal Server Error", message},
\* the message being the Error's message, or "Unknown error" when the raised
\* value is not an Error.
C5_HandlerErrorContained ==
    \A r \in Busy :
        (/\ RouteOf(r).wrapped
         /\ ctx[r].handlerCalls > 0
         /\ ctx[r].pc # "invoking"
         /\ OutcomeOf(r).threw) =>
            /\ ctx[r].pc = "HANDLER_ERROR"
            /\ ctx[r].status = 500
            /\ ctx[r].body.error = "Internal Server Error"
            /\ ctx[r].body.value = ""
            /\ OutcomeOf(r).isError =>
                  ctx[r].body.message = OutcomeOf(r).message
            /\ ~OutcomeOf(r).isError =>
                  ctx[r].body.message = "Unknown error"

\* a handler raised Error("boom") and another raised the string "oops"
C5_Witness ==
    /\ \E r \in Busy :
          RouteOf(r).wrapped /\ ctx[r].pc = "HANDLER_ERROR"
              /\ ctx[r].body.message = "boom"
    /\ \E r \in Busy :
          RouteOf(r).wrapped /\ ctx[r].pc = "HANDLER_ERROR"
              /\ ~OutcomeOf(r).isError
              /\ ctx[r].body.message = "Unknown error"

\* C6: when the route's handler returns, the wrapped handler returns that
\* value and leaves the status as the handler left it (unassigned when the
\* handler assigned none).
C6_ReturnPassedThrough ==
    \A r \in Busy :
        (/\ RouteOf(r).wrapped
         /\ ctx[r].handlerCalls > 0
         /\ ctx[r].pc # "invoking"
         /\ ~OutcomeOf(r).threw) =>
            /\ ctx[r].pc = "DONE"
            /\ ctx[r].body = ValueBody(OutcomeOf(r).value)
            /\ ctx[r].status = OutcomeOf(r).status

\* a handler that set status 201 and one that set none have both returned
C6_Witness ==
    /\ \E r \in Busy :
          RouteOf(r).wrapped /\ ctx[r].pc = "DONE" /\ ctx[r].status = 201
              /\ ctx[r].body = ValueBody("created")
    /\ \E r \in Busy :
          RouteOf(r).wrapped /\ ctx[r].pc = "DONE" /\ ctx[r].status = 0

\* a request handled with no other request around: the context after the
\* call of the engine, and after each resumption
SoloStart(e, i, h) ==
    LET c == [IdleCtx EXCEPT !.route = i, !.auth = headersGet(h)]
    IN  IF e.wrapped THEN wrapHandlerStart(c, e) ELSE invokeHandler(c)

SoloStep(c, e) ==
    CASE c.pc = "verifying" ->
            wrapHandlerVerified(c, jwtVerify(substring(c.auth.value, 7)))
      [] c.pc = "invoking" ->
            IF e.wrapped
            THEN wrapHandlerSettled(c, handlerRun(e.handler, c.seenUser))
            ELSE rawSettled(c, handlerRun(e.handler, c.seenUser))
      [] OTHER -> c

SoloRun(e, i, h) ==
    { SoloStart(e, i, h),
      SoloStep(SoloStart(e, i, h), e),
      SoloStep(SoloStep(SoloStart(e, i, h), e), e) }

\* C7: with requests interleaved, the status, body and principal of each
\* request are those of the same request handled alone: they depend on its
\* own header, its own verify result and its own handler run, whatever the
\* other requests do.
C7_RequestsIsolated ==
    \A r \in Busy : ctx[r] \in SoloRun(RouteOf(r), ctx[r].route, ctx[r].auth)

\* a request whose handler raised has ended with 500 while another request,
\* dispatched with a valid token, is served normally with its own principal
C7_Witness ==
    \E r, q \in Busy :
        /\ ctx[r].pc = "HANDLER_ERROR" /\ ctx[r].status = 500
        /\ ctx[r].body = ErrorBody("Internal Server Error", "boom")
        /\ RouteOf(q).requiresAuth /\ ctx[q].pc = "DONE"
        /\ ctx[q].status = 0 /\ ctx[q].body = ValueBody("alice")

\* C8: the path registered with the engine by documentedRoute and by route
\* never contains "//".
C8_NoDoubleSlash ==
    \A i \in 1..Len(engine) : ~HasDoubleSlash(engine[i].path)

\* C9: getRoutes() is the sequence of the descriptors passed to
\* documentedRoute, in call order, whatever route, getRoutes, listen and
\* the requests did in between; documentedRoute, when it returns, returns
\* the registry itself.
C9_ListIsRegisterHistory ==
    /\ getRoutes(routes) = passed
    /\ lastCall.op = "getRoutes" => lastCall.list = passed
    /\ (lastCall.op = "documentedRoute" /\ ~lastCall.threw) => lastCall.self

\* two different descriptors were registered, a request was served, listen
\* resolved, and getRoutes was the last call
C9_Witness ==
    /\ Len(passed) = 2
    /\ passed[1] # passed[2]
    /\ lastCall.op = "getRoutes"
    /\ Len(lastCall.list) = 2
    /\ promise = <<"resolved">>
    /\ \E r \in Busy : ctx[r].pc \in Terminal

\* the engine routes registered by route
RawRoutes == {i \in 1..Len(engine) : ~engine[i].wrapped}

\* C10: route registers the caller's own handler, not wrapped, at the
\* resolved path, with no validation schema and hidden from the generated
\* documentation; it adds nothing to getRoutes() and returns the registry
\* itself.  A request to such a route reaches the handler without any auth
\* check, and an error of the handler is not turned into a 500 body.
C10_RawRouteUnwrappedHidden ==
    /\ \A i \in RawRoutes :
          /\ engine[i].schema.detail.hide
          /\ ~engine[i].schema.detail.documented
          /\ engine[i].schema.body = JsUndefined
          /\ \E rc \in RawCalls :
                /\ engine[i].method = toLowerCase(rc.method)
                /\ engine[i].handler = rc.handler
                /\ engine[i].path = ReplaceDoubleSlash(basePath \o rc.path)
    /\ Len(routes) = Len(passed)
    /\ lastCall.op = "route" => lastCall.self
    /\ \A r \in Busy :
          ctx[r].route \in RawRoutes =>
              /\ ctx[r].verifyCalls = 0
              /\ ctx[r].handlerCalls = 1
              /\ ctx[r].pc # "HANDLER_ERROR"
              /\ ctx[r].pc # "UNAUTHORIZED"

\* a raw route was registered after a documented one, and a request without
\* an Authorization header reached its handler, whose error left uncaught
C10_Witness ==
    /\ Len(routes) = 1
    /\ lastCall.op = "route"
    /\ \E r \in Busy :
          /\ ctx[r].route \in RawRoutes
          /\ ~ctx[r].auth.present
          /\ ctx[r].pc = "ENGINE_ERROR"

\* ------------------------------------------------------------ compilation

\* a Parameter {name, in, type, required, default}, without description
Param(name, in, type, required, default) ==
    [name |-> name, in |-> in, type |-> type, description |-> JsUndefined,
     required |-> required, default |-> default]

\* path id, required; query q; query l, required with default 10; query p,
\* required; header t, required with default null; cookie c, required;
\* header q, required false
pId == Param(kId, "path", "number", JsBoolean(TRUE), JsUndefined)
pQ == Param(<<"q">>, "query", "string", JsUndefined, JsUndefined)
pLimit == Param(<<"l">>, "query", "number", JsBoolean(TRUE), JsNumber(10))
pPage == Param(<<"p">>, "query", "number", JsBoolean(TRUE), JsUndefined)
pToken == Param(<<"t">>, "header", "string", JsBoolean(TRUE), JsNull)
pCookie == Param(<<"c">>, "cookie", "string", JsBoolean(TRUE), JsUndefined)
pOff == Param(<<"q">>, "header", "boolean", JsBoolean(FALSE), JsUndefined)

ParamPool == {pId, pQ, pLimit, pPage, pToken, pCookie, pOff}

\* the params arrays: up to MaxParams different parameters of ParamPool
ParamLists ==
    { l \in UNION {[1..n -> ParamPool] : n \in 0..MaxParams} :
         \A i, j \in 1..Len(l) : i # j => l[i] # l[j] }

\* the schema object t.Object({name: t.String()})
TypeBoxName == tObject([k \in {kName} |-> tString])

\* responses {"200": "ok", "404": "missing"}
ResponsesOkMissing ==
    JsObject(<<Entry(c200, JsString(<<"ok">>)),
               Entry(c404, JsString(<<"missing">>))>>)

\* responses {"200": {description: "ok", schema: {"!id": "number", name:
\* "string"}}, "201": "made", "204": "gone", "404": {description:
\* "missing"}}
ResponsesMixed ==
    JsObject(<<Entry(c200, ResponseDefinition(JsString(<<"ok">>), DefIdName)),
               Entry(c201, JsString(<<"made">>)),
               Entry(c204, JsString(<<"gone">>)),
               Entry(c404, ResponseDefinition(JsString(<<"missing">>),
                                              JsUndefined))>>)

\* responses {"201": {description: "made", schema: {}}, "404": "missing"}
ResponsesEmptySchema ==
    JsObject(<<Entry(c201, ResponseDefinition(JsString(<<"made">>),
                                              JsObject(<<>>))),
               Entry(c404, JsString(<<"missing">>))>>)

ResponseTables ==
    {ResponsesOk, ResponsesOkMissing, ResponsesMixed, ResponsesEmptySchema}

\* schemasResponse: absent, null, {id: "number"}, {id: 123}, [], a
\* schema object, a validator
Fallbacks ==
    { JsUndefined, JsNull, DefId, JsObject(<<Entry(kId, JsNumber(123))>>),
      JsArray(<<>>), TypeBoxName, Validator(TypeBoxName) }

\* schemasRequest: absent, null, a schema definition, a schema object, a
\* validator
RequestSchemas ==
    {JsUndefined, JsNull, DefIdName, TypeBoxName, Validator(TypeBoxName)}

CompileMethods ==
    {"GET", "POST", "PUT", "DELETE", "PATCH", "OPTIONS", "HEAD"}

\* the descriptor the inputs of SpecCompile vary
dPlain ==
    Descriptor("GET", pathUsers, FALSE, "whoami", JsUndefined, JsUndefined)

DocInputs ==
    { [dPlain EXCEPT !.method = m, !.path = p, !.summary = s,
                     !.description = d, !.tags = g] :
         m \in {"GET", "POST"}, p \in {pathUsers, pathNoSlash},
         s \in {JsUndefined, JsString(<<>>), JsString(<<"s">>)},
         d \in {JsUndefined, JsString(<<"d">>)},
         g \in {JsUndefined, JsArray(<<JsString(<<"g">>)>>)} }

ParamInputs ==
    { [dPlain EXCEPT !.params = JsArray(l)] : l \in ParamLists }

BodyInputs ==
    { [dPlain EXCEPT !.method = m, !.schemasRequest = q] :
         m \in CompileMethods, q \in RequestSchemas }

ResponseInputs ==
    { [dPlain EXCEPT !.responses = r, !.schemasResponse = f] :
         r \in ResponseTables, f \in Fallbacks }

\* type tokens: the five supported ones, one differing in case, one
\* unknown
Tokens ==
    {"string", "number", "boolean", "array", "object", "Number", "uuid"}
SupportedTokens == {"string", "number", "boolean", "array", "object"}

kX == <<"x">>
kXMarked == <<"!", "x">>
kY == <<"y">>
kA == <<"a">>
kAMarked == <<"!", "a">>

\* nested definitions {}, {"!a": "string"} and {a: "Number"}
NestedDefinitions ==
    { JsObject(<<>>),
      JsObject(<<Entry(kAMarked, JsString(<<"string">>))>>),
      JsObject(<<Entry(kA, JsString(<<"Number">>))>>) }

\* the values of a schema definition: a type token or a nested definition;
\* and, beside what its type allows, a number and null
DefinitionValues ==
    {JsString(<<token>>) : token \in Tokens} \cup NestedDefinitions
        \cup {JsNumber(1), JsNull}

\* the entries of the schema definitions: x, "!x" or y with a value
DefinitionEntries ==
    {Entry(key, value) : key \in {kX, kXMarked, kY}, value \in DefinitionValues}

\* the schema definitions: up to MaxKeys entries with different keys
SchemaDefinitions ==
    { JsObject(es) : es \in
        { l \in UNION {[1..n -> DefinitionEntries] : n \in 0..MaxKeys} :
             \A i, j \in 1..Len(l) : i # j => l[i].key # l[j].key } }

\* one query parameter for every type token of the top level of a schema
\* definition whose clean key no other entry has: named by the clean key,
\* typed by the token, required when the key is marked
ParamsOf(d) ==
    LET single(e) ==
            \A i \in 1..Len(d.entries) :
                cleanKey(d.entries[i].key) = cleanKey(e.key) =>
                    d.entries[i] = e
        tokens == SelectSeq(d.entries,
                            LAMBDA e : e.value.js = "string" /\ single(e))
    IN  [i \in 1..Len(tokens) |->
            Param(cleanKey(tokens[i].key), "query", tokens[i].value.text[1],
                  JsBoolean(isRequired(tokens[i].key)), JsUndefined)]

\* a route whose request body, whose "200" response and whose query
\* parameters are all declared from the same schema definition
SchemaInputs ==
    { [dPlain EXCEPT !.schemasRequest = d,
                     !.responses =
                         JsObject(<<Entry(c200,
                             ResponseDefinition(JsString(<<"ok">>), d))>>),
                     !.params = JsArray(ParamsOf(d))] :
         d \in SchemaDefinitions }

\* the descriptors SpecCompile compiles
CompileInputs ==
    DocInputs \cup ParamInputs \cup BodyInputs \cup ResponseInputs
        \cup SchemaInputs

\* buildRouteSchema(input) called on its own
Compile ==
    /\ fnArg.fn = "buildRouteSchema"
    /\ fnResult = NoResult
    /\ ~buildRouteSchemaThrows(fnArg.input)
    /\ fnResult' = [fn |-> "buildRouteSchema",
                    schema |-> buildRouteSchema(fnArg.input)]
    /\ UNCHANGED <<basePath, routes, engine, passed, lastCall, host,
                   onErrorHooks, listenPort, promise, ctx>>
    /\ UNCHANGED <<portArg, socket, errorResponse, fnArg, limiter>>

\* buildRouteSchema called again for one of CompileInputs, now with the
\* body schema it returned as schemasRequest
CompileAgain ==
    /\ fnArg.fn = "buildRouteSchema"
    /\ fnArg.input \in CompileInputs
    /\ fnResult # NoResult
    /\ fnResult.schema.body # JsUndefined
    /\ fnArg' = [fnArg EXCEPT !.input.schemasRequest = fnResult.schema.body]
    /\ ~buildRouteSchemaThrows(fnArg'.input)
    /\ fnResult' = [fn |-> "buildRouteSchema",
                    schema |-> buildRouteSchema(fnArg'.input)]
    /\ UNCHANGED <<basePath, routes, engine, passed, lastCall, host,
                   onErrorHooks, listenPort, promise, ctx>>
    /\ UNCHANGED <<portArg, socket, errorResponse, limiter>>

\* a descriptor of CompileInputs is about to be compiled
InitCompile ==
    /\ basePath = ConfigBasePath(<<>>)
    /\ host = ConfigHost(<<>>)
    /\ routes = <<>>
    /\ engine = <<>>
    /\ passed = <<>>
    /\ lastCall = NoCall
    /\ onErrorHooks = 0
    /\ listenPort = <<>>
    /\ promise = <<>>
    /\ ctx = [r \in ReqIds |-> IdleCtx]
    /\ portArg = <<>>
    /\ socket = <<>>
    /\ errorResponse = NoResponse
    /\ fnArg \in {[fn |-> "buildRouteSchema", input |-> d] : d \in CompileInputs}
    /\ fnResult = NoResult
    /\ limiter = NoLimiter

NextCompile == Compile \/ CompileAgain

SpecCompile == InitCompile /\ [][NextCompile]_vars

\* a request with the header forwarded reaches the middleware
LimitedRequest(forwarded) ==
    /\ limiter # NoLimiter
    /\ Len(limiter.log) < MaxLog
    /\ LET after == onBeforeHandle(limiter, forwarded)
       IN  limiter' =
               [limiter EXCEPT
                   !.requestCounts = after.requestCounts,
                   !.log = Append(@, [ip |-> clientIp(forwarded),
                                      now |-> limiter.now,
                                      answer |-> after.answer])]
    /\ UNCHANGED <<basePath, routes, engine, passed, lastCall, host,
                   onErrorHooks, listenPort, promise, ctx>>
    /\ UNCHANGED <<portArg, socket, errorResponse, fnArg, fnResult>>

\* the clock advances
Tick ==
    /\ limiter # NoLimiter
    /\ limiter.now < MaxTicks * TickMs
    /\ limiter' = [limiter EXCEPT !.now = @ + TickMs]
    /\ UNCHANGED <<basePath, routes, engine, passed, lastCall, host,
                   onErrorHooks, listenPort, promise, ctx>>
    /\ UNCHANGED <<portArg, socket, errorResponse, fnArg, fnResult>>

\* a middleware set up with maxRequests of 1..MaxLimit and a window
InitLimiter ==
    /\ basePath = ConfigBasePath(<<>>)
    /\ host = ConfigHost(<<>>)
    /\ routes = <<>>
    /\ engine = <<>>
    /\ passed = <<>>
    /\ lastCall = NoCall
    /\ onErrorHooks = 0
    /\ listenPort = <<>>
    /\ promise = <<>>
    /\ ctx = [r \in ReqIds |-> IdleCtx]
    /\ portArg = <<>>
    /\ socket = <<>>
    /\ errorResponse = NoResponse
    /\ fnArg = NoArg
    /\ fnResult = NoResult
    /\ limiter \in {setupRateLimitMiddleware(maxRequests, windowMs) :
                       maxRequests \in 1..MaxLimit, windowMs \in Windows}

NextLimiter ==
    \/ \E forwarded \in Forwardeds : LimitedRequest(forwarded)
    \/ Tick

SpecLimiter == InitLimiter /\ [][NextLimiter]_vars

\* ----------------------------------------------------------- listen claims

\* the text of h after its last colon; h itself when it has no colon
RECURSIVE AfterLastColon(_)
AfterLastColon(h) ==
    IF \A i \in 1..Len(h) : h[i] # ":" THEN h
    ELSE AfterLastColon(Tail(h))

HasColon(h) == \E i \in 1..Len(h) : h[i] = ":"

\* a host string contains a port: a colon followed, up to the end of the
\* string, by one or more decimal digits
ContainsPort(h) ==
    /\ HasColon(h)
    /\ AfterLastColon(h) # <<>>
    /\ \A i \in 1..Len(AfterLastColon(h)) : DigitValue(AfterLastColon(h)[i]) >= 0

\* C11: at every call of listen, the port passed to the engine is the
\* port contained in the configured host when it contains one; otherwise
\* the port argument when one was given; otherwise 8080.
C11_PortPriority ==
    \A i \in DOMAIN listenPort :
        listenPort[i] =
            IF ContainsPort(host) THEN Num(DigitsPrefix(AfterLastColon(host), 0))
            ELSE IF portArg[i] # Undefined THEN portArg[i]
            ELSE Num(8080)

\* the promise of the i-th listen call is resolved in the next state and
\* was not in this one
Resolves(i) ==
    /\ i \in DOMAIN promise'
    /\ promise'[i] = "resolved"
    /\ i \in DOMAIN promise => promise[i] # "resolved"

\* C12: the promise of a listen call becomes resolved only in a step in
\* which the engine has bound the socket of that call and run the ready
\* callback, and a settled promise never changes again.
C12_ResolvedOnlyWhenBound ==
    /\ [][\A i \in 1..MaxListens :
            Resolves(i) =>
                /\ socket'[i] = "bound"
                /\ i \in DOMAIN socket => socket[i] = "binding"]_vars
    /\ [][\A i \in DOMAIN promise :
            (promise[i] \in {"resolved", "rejected"}) =>
                (promise'[i] = promise[i])]_vars

\* a first listen returned with its promise pending, then the engine called
\* back; stop closed its socket, and a second listen was resolved by a
\* callback run before app.listen returned
C12_Witness ==
    /\ Len(promise) = 2
    /\ promise = <<"resolved", "resolved">>
    /\ socket = <<"closed", "bound">>
    /\ lastCall.op = "listen"

\* C13: the promise of a listen call never stays pending for ever: it is
\* pending only while the engine is still binding, that is while the step
\* that settles it can still happen; a bind that has failed has rejected it.
C13_StartSettles ==
    \A i \in DOMAIN promise :
        /\ promise[i] = "pending" => socket[i] = "binding"
        /\ socket[i] = "failed" => promise[i] = "rejected"

\* C14: onError is bound at every call of listen, before app.listen, and every
\* engine-level error answered since has status 400 and the body {code,
\* message}, message being the message of an Error and the string form of
\* any other value.
C14_FallbackErrorResponder ==
    /\ onErrorHooks = Len(socket)
    /\ errorResponse # NoResponse =>
          /\ errorResponse.status = 400
          /\ errorResponse.body.code = errorResponse.code
          /\ errorResponse.body.message =
                IF errorResponse.error.kind = "Error"
                THEN errorResponse.error.message
                ELSE IF errorResponse.error.kind = "null" THEN <<"null">>
                ELSE errorResponse.error.value

\* a thrown string was answered with 400 and the string as message
C14_Witness ==
    /\ onErrorHooks > 0
    /\ errorResponse.status = 400
    /\ errorResponse.error = ThrownString(<<"oops">>)
    /\ errorResponse.body = [code |-> "NOT_FOUND", message |-> <<"oops">>]

\* ------------------------------------------------------ compilation claims

\* buildRouteSchema has returned the schema of fnArg.input
Compiled == fnResult.fn = "buildRouteSchema"

\* the schema documented under a status code of the compiled route
DocSchema(statusCode) ==
    fnResult.schema.detail.responses[statusCode].content.applicationJson.schema

\* the schema of a response table entry itself: none for a description
OwnSchema(response) ==
    IF response.js = "string" THEN JsUndefined ELSE response.schema

Supplied(v) == v # JsUndefined /\ v # JsNull

\* C15: under every status code of the response table the documented
\* schema is the converted schema of the entry when the entry has one;
\* else the converted schemasResponse when one was supplied and the code
\* is "200" or "201"; else {type: "object"}.  Under any other code an
\* entry without a schema of its own documents {type: "object"}.
C15_ResponseSchemaChoice ==
    (Compiled /\ Supplied(fnArg.input.responses)) =>
        \A statusCode \in Keys(fnArg.input.responses) :
            LET own == OwnSchema(Get(fnArg.input.responses, statusCode))
                fallback == fnArg.input.schemasResponse
            IN  /\ DocSchema(statusCode) =
                      IF Supplied(own)
                      THEN convertSchemaDefinitionToOpenAPI(own)
                      ELSE IF Supplied(fallback) /\ statusCode \in {c200, c201}
                      THEN convertToOpenAPISchema(fallback)
                      ELSE GenericObject
                /\ (~Supplied(own) /\ statusCode \notin {c200, c201}) =>
                      DocSchema(statusCode) = GenericObject

\* one table took the three paths: "200" documents its own schema with
\* id required, "201" the fallback, "204" and "404" the generic schema
C15_Witness ==
    /\ Compiled
    /\ fnArg.input.responses = ResponsesMixed
    /\ fnArg.input.schemasResponse = JsArray(<<>>)
    /\ DocSchema(c200).required = <<kId>>
    /\ DocSchema(c201) = ArrayOfObjects
    /\ DocSchema(c204) = GenericObject
    /\ DocSchema(c404) = GenericObject

\* C16: with responses {"200": "ok", "404": "missing"} and schemasResponse
\* {id: "number"}, the entry "200" documents the property id with type
\* number and the entry "404" documents {type: "object"} only.
C16_CompactFallbackTyped ==
    (/\ Compiled
     /\ fnArg.input.responses = ResponsesOkMissing
     /\ fnArg.input.schemasResponse = DefId) =>
        /\ "properties" \in DOMAIN DocSchema(c200)
        /\ kId \in DOMAIN DocSchema(c200).properties
        /\ DocSchema(c200).properties[kId].type = "number"
        /\ DocSchema(c404) = GenericObject

\* the locations that get a validation schema, and the schema of each
Locations == {"query", "path", "header"}
SchemaAt(in) ==
    CASE in = "query" -> fnResult.schema.query
      [] in = "path" -> fnResult.schema.params
      [] in = "header" -> fnResult.schema.headers

\* the parameters of the compiled descriptor at a location
ParamsAt(in) ==
    IF Supplied(fnArg.input.params)
    THEN {fnArg.input.params.items[i] :
             i \in {j \in 1..Len(fnArg.input.params.items) :
                       fnArg.input.params.items[j].in = in}}
    ELSE {}

\* a value of a parameter's type
SampleValue(type) ==
    CASE type = "number" -> JsNumber(1)
      [] type = "boolean" -> JsBoolean(TRUE)
      [] type = "array" -> JsArray(<<>>)
      [] type = "object" -> JsObject(<<>>)
      [] OTHER -> JsString(<<"v">>)

\* a request's values for the parameters ps, valid for their types
RECURSIVE RequestOf(_)
RequestOf(ps) ==
    IF ps = {} THEN <<>>
    ELSE LET q == CHOOSE x \in ps : TRUE
         IN  <<Entry(q.name, SampleValue(q.type))>> \o RequestOf(ps \ {q})

\* required is true and there is no default
Mandatory(param) == param.required = JsBoolean(TRUE) /\ param.default = JsUndefined

\* C17: a parameter of a compiled location schema is optional exactly when
\* it is not (required true without default); a request that has every
\* parameter of the location is accepted, and a request that misses one
\* parameter only is accepted exactly when that parameter is optional.
C17_OptionalIffNotRequiredOrDefault ==
    Compiled =>
        \A in \in Locations : \A param \in ParamsAt(in) :
            /\ SchemaAt(in).properties[param.name].optional <=> ~Mandatory(param)
            /\ Check(SchemaAt(in), JsObject(RequestOf(ParamsAt(in))))
            /\ Check(SchemaAt(in), JsObject(RequestOf(ParamsAt(in) \ {param})))
                   <=> ~Mandatory(param)

\* a required parameter without default and a required one with a default
\* were compiled together: the request without the first is rejected, the
\* request without the second is accepted
C17_Witness ==
    /\ Compiled
    /\ ParamsAt("query") = {pPage, pLimit}
    /\ ~Check(fnResult.schema.query, JsObject(RequestOf({pLimit})))
    /\ Check(fnResult.schema.query, JsObject(RequestOf({pPage})))

\* the validation type of a parameter type
KindOf(type) ==
    CASE type = "string" -> "String"
      [] type = "number" -> "Number"
      [] type = "boolean" -> "Boolean"
      [] type = "array" -> "Array"
      [] type = "object" -> "Object"
      [] OTHER -> "Any"

\* C18: the compiled route has a validation object for a location exactly
\* when the descriptor has a parameter of that location; the object's
\* properties are the names of the parameters of that location, each with
\* the type of that location's parameter.
C18_SchemaPerLocation ==
    Compiled =>
        \A in \in Locations :
            /\ SchemaAt(in) # JsUndefined <=> ParamsAt(in) # {}
            /\ SchemaAt(in) # JsUndefined =>
                  /\ SchemaAt(in).kind = "Object"
                  /\ DOMAIN SchemaAt(in).properties =
                        {param.name : param \in ParamsAt(in)}
                  /\ \A param \in ParamsAt(in) :
                        SchemaAt(in).properties[param.name].kind =
                            KindOf(param.type)

\* a query parameter q and a header parameter q were compiled: each
\* location has its own q, and the path has no schema
C18_Witness ==
    /\ Compiled
    /\ ParamsAt("query") = {pQ}
    /\ ParamsAt("header") = {pOff}
    /\ fnResult.schema.query.properties[<<"q">>].kind = "String"
    /\ fnResult.schema.headers.properties[<<"q">>].kind = "Boolean"
    /\ fnResult.schema.params = JsUndefined

\* request bodies: a string, a number, null, an array, an object
SampleBodies ==
    { JsString(<<"v">>), JsNumber(1), JsNull, JsArray(<<>>),
      JsObject(<<Entry(kName, JsNumber(1))>>) }

\* a validation schema: a schema built with the type builder, or the
\* compiled validator of one
IsValidationSchema(v) == v.js \in {"typebox", "validator"}

\* C19: the body schema of a compiled route is the explicit schemasRequest
\* itself, unchanged, when that is already a validation schema, and its
\* conversion (an object schema over the cleaned keys of the definition)
\* otherwise; without an explicit schema it is a schema accepting every
\* body for POST, PUT and PATCH, and absent for every other method.
C19_BodySchema ==
    Compiled =>
        IF Supplied(fnArg.input.schemasRequest)
        THEN IF IsValidationSchema(fnArg.input.schemasRequest)
             THEN fnResult.schema.body = fnArg.input.schemasRequest
             ELSE /\ fnResult.schema.body =
                        convertSchemaToTypeBox(fnArg.input.schemasRequest)
                  /\ fnResult.schema.body.kind = "Object"
                  /\ DOMAIN fnResult.schema.body.properties =
                        {cleanKey(k) : k \in Keys(fnArg.input.schemasRequest)}
        ELSE IF fnArg.input.method \in {"POST", "PUT", "PATCH"}
        THEN /\ fnResult.schema.body # JsUndefined
             /\ \A v \in SampleBodies : Check(fnResult.schema.body, v)
        ELSE fnResult.schema.body = JsUndefined

\* C20: the summary of a route compiled without summary is its
\* description, and a route compiled without summary and without
\* description has "<METHOD> <path>" both as summary and as description.
C20_SummaryAndDescriptionDefault ==
    (Compiled /\ fnArg.input.summary = JsUndefined) =>
        IF fnArg.input.description = JsUndefined
        THEN /\ fnResult.schema.detail.summary =
                   JsString(<<fnArg.input.method, " ">> \o fnArg.input.path)
             /\ fnResult.schema.detail.description =
                   JsString(<<fnArg.input.method, " ">> \o fnArg.input.path)
        ELSE fnResult.schema.detail.summary = fnArg.input.description

\* ---------------------------------------------- schema definition claims

\* a route declared from one schema definition has been compiled: the
\* definition, its documentation fragment and its validation schema
FromDefinition == Compiled /\ fnArg.input \in SchemaInputs
Definition == fnArg.input.schemasRequest
Fragment == DocSchema(c200)
Validation == fnResult.schema.body

\* the elements of a sequence
Range(seq) == {seq[i] : i \in 1..Len(seq)}

\* a value is a nested definition, a type token
IsNested(value) == value.js = "object"
IsToken(value) == value.js = "string"

\* every value of the definition, at every level, is a type token or a
\* nested definition
RECURSIVE WellTyped(_)
WellTyped(d) ==
    \A i \in 1..Len(d.entries) :
        \/ IsToken(d.entries[i].value)
        \/ IsNested(d.entries[i].value) /\ WellTyped(d.entries[i].value)

\* the names in the required list of a documentation fragment
RequiredOf(doc) ==
    IF "required" \in DOMAIN doc THEN Range(doc.required) ELSE {}

\* the marker rule for every key of d, in its fragment doc and its
\* validation schema val
RECURSIVE MarkerRule(_, _, _)
MarkerRule(d, doc, val) ==
    /\ "required" \in DOMAIN doc => doc.required # <<>>
    /\ \A i \in 1..Len(d.entries) :
          LET key == d.entries[i].key
              name == cleanKey(key)
          IN  /\ name \in DOMAIN doc.properties
              /\ name \in DOMAIN val.properties
              /\ isRequired(key) <=> ~val.properties[name].optional
              /\ isRequired(key) <=> name \in RequiredOf(doc)
              /\ IsNested(d.entries[i].value) =>
                    /\ "properties" \in DOMAIN doc.properties[name]
                    /\ val.properties[name].kind = "Object"
                    /\ MarkerRule(d.entries[i].value, doc.properties[name],
                                  val.properties[name])

\* C21: for every key of a schema definition of tokens and nested
\* definitions, at every level, the clean key names a property of the
\* documentation fragment and of the validation schema; the property is
\* non-optional in the validation schema and listed in the fragment's
\* required list exactly when the key is marked; and a fragment has a
\* required list only when the list is not empty.
C21_MarkerStrippedAndRequired ==
    (FromDefinition /\ WellTyped(Definition)) =>
        MarkerRule(Definition, Fragment, Validation)

\* the top-level entries of the definition holding a token no path knows
UnknownAt(d) ==
    {i \in 1..Len(d.entries) :
        /\ IsToken(d.entries[i].value)
        /\ LowerText(d.entries[i].value.text) \notin
              {<<token>> : token \in SupportedTokens}}

\* the entry is the only one of the definition with its clean key
Single(d, i) ==
    \A j \in 1..Len(d.entries) :
        cleanKey(d.entries[j].key) = cleanKey(d.entries[i].key) => j = i

\* values of every type
SampleValues ==
    { JsString(<<"v">>), JsNumber(1), JsBoolean(TRUE), JsNull, JsArray(<<>>),
      JsArray(<<JsObject(<<>>)>>), JsObject(<<>>),
      JsObject(<<Entry(kA, JsString(<<"v">>))>>),
      JsObject(<<Entry(kA, JsNumber(1))>>) }

\* C22: a definition of tokens and nested definitions compiles without
\* raising, and a field with an unknown token is documented as a string
\* and validated by a schema that accepts every value.
C22_UnknownTokenOpen ==
    /\ (fnArg.fn = "buildRouteSchema" /\ fnArg.input \in SchemaInputs
          /\ WellTyped(Definition)) =>
            ~buildRouteSchemaThrows(fnArg.input)
    /\ FromDefinition =>
          \A i \in UnknownAt(Definition) :
              Single(Definition, i) =>
                  LET name == cleanKey(Definition.entries[i].key)
                  IN  /\ Fragment.properties[name] = [type |-> "string"]
                      /\ \A v \in SampleValues :
                            Check(Validation.properties[name], v)

\* C23: when buildRouteSchema is called again with the body schema it
\* returned for a schema definition as schemasRequest, it returns that
\* same body schema.
C23_ValidationIdempotent ==
    [][(/\ fnResult # NoResult
        /\ fnResult' # NoResult
        /\ fnArg.input \in SchemaInputs
        /\ fnArg'.input.schemasRequest = fnResult.schema.body)
          => (fnResult'.schema.body = fnResult.schema.body)]_vars

\* a value satisfies a documentation fragment: its type, the types of the
\* properties it has, and the required list
RECURSIVE DocSatisfies(_, _)
DocSatisfies(doc, v) ==
    CASE doc.type = "string" -> v.js = "string"
      [] doc.type = "number" -> v.js = "number"
      [] doc.type = "boolean" -> v.js = "boolean"
      [] doc.type = "array" ->
            /\ v.js = "array"
            /\ \A i \in 1..Len(v.items) : DocSatisfies(doc.items, v.items[i])
      [] doc.type = "object" ->
            /\ v.js = "object"
            /\ \A name \in RequiredOf(doc) : name \in Keys(v)
            /\ "properties" \in DOMAIN doc =>
                  \A name \in DOMAIN doc.properties :
                      name \in Keys(v) =>
                          DocSatisfies(doc.properties[name], Get(v, name))

\* every token of the definition, at every level, is a supported one
RECURSIVE OnlySupported(_)
OnlySupported(d) ==
    \A i \in 1..Len(d.entries) :
        LET value == d.entries[i].value
        IN  \/ /\ IsToken(value)
               /\ LowerText(value.text) \in
                     {<<token>> : token \in SupportedTokens}
            \/ IsNested(value) /\ OnlySupported(value)

\* request bodies: x and y each absent or one of SampleValues
SampleObjects ==
    { JsObject(x \o y) :
        x \in {<<>>} \cup {<<Entry(kX, v)>> : v \in SampleValues},
        y \in {<<>>} \cup {<<Entry(kY, v)>> : v \in SampleValues} }

\* C24: for a schema definition of supported tokens and nested definitions
\* of supported tokens, every sample object that satisfies the
\* documentation fragment is accepted by the validation schema.
C24_ValidationAcceptsDocumented ==
    (FromDefinition /\ OnlySupported(Definition)) =>
        \A v \in SampleObjects :
            DocSatisfies(Fragment, v) => Check(Validation, v)

\* {"!x": {"!a": "string"}, y: "number"} was compiled: the body {x: {a:
\* "v"}, y: 1} satisfies the fragment and is accepted, and the body {x: {a:
\* 1}} satisfies neither
C24_Witness ==
    /\ FromDefinition
    /\ Definition =
          JsObject(<<Entry(kXMarked,
                           JsObject(<<Entry(kAMarked, JsString(<<"string">>))>>)),
                     Entry(kY, JsString(<<"number">>))>>)
    /\ LET good == JsObject(<<Entry(kX, JsObject(<<Entry(kA, JsString(<<"v">>))>>)),
                              Entry(kY, JsNumber(1))>>)
           bad == JsObject(<<Entry(kX, JsObject(<<Entry(kA, JsNumber(1))>>))>>)
       IN  /\ DocSatisfies(Fragment, good) /\ Check(Validation, good)
           /\ ~DocSatisfies(Fragment, bad) /\ ~Check(Validation, bad)

\* C25: a query parameter typed by a token is compiled to the same
\* validation type as the body field a schema definition declares with
\* that token.
C25_ParamTypesMatchDefinition ==
    (FromDefinition /\ fnResult.schema.query # JsUndefined) =>
        \A name \in DOMAIN fnResult.schema.query.properties :
            fnResult.schema.query.properties[name].kind =
                Validation.properties[name].kind

\* C28: the documentation fragment and the validation schema of a schema
\* definition have the same property names; every name of the required
\* list is a property of the fragment; and a name is in the required list
\* exactly when the validation schema's property is not optional.
C28_SameFields ==
    FromDefinition =>
        /\ DOMAIN Fragment.properties = DOMAIN Validation.properties
        /\ RequiredOf(Fragment) \subseteq DOMAIN Fragment.properties
        /\ \A name \in DOMAIN Validation.properties :
              name \in RequiredOf(Fragment)
                  <=> ~Validation.properties[name].optional

\* C26: the documented responses of a compiled route have exactly the
\* status codes of the response table; the entry of each code has the
\* description of the table's entry (the string itself, or the description
\* of the definition) and, beside it, only content, which holds the schema
\* under application/json, whichever schema was chosen.
C26_OneEnvelopePerStatusCode ==
    (Compiled /\ Supplied(fnArg.input.responses)) =>
        /\ DOMAIN fnResult.schema.detail.responses =
              Keys(fnArg.input.responses)
        /\ \A statusCode \in Keys(fnArg.input.responses) :
              LET response == Get(fnArg.input.responses, statusCode)
                  documented == fnResult.schema.detail.responses[statusCode]
              IN  /\ DOMAIN documented = {"description", "content"}
                  /\ documented.description =
                        IF response.js = "string" THEN response
                        ELSE response.description
                  /\ DOMAIN documented.content = {"applicationJson"}
                  /\ DOMAIN documented.content.applicationJson = {"schema"}

\* the table with four codes was compiled with the fallback {id: 123}:
\* four entries, that of "200" with its own schema, that of "201" with the
\* fallback, that of "204" with the generic schema, each with its
\* description
C26_Witness ==
    /\ Compiled
    /\ fnArg.input.responses = ResponsesMixed
    /\ fnArg.input.schemasResponse = JsObject(<<Entry(kId, JsNumber(123))>>)
    /\ Cardinality(DOMAIN fnResult.schema.detail.responses) = 4
    /\ fnResult.schema.detail.responses[c200].description = JsString(<<"ok">>)
    /\ fnResult.schema.detail.responses[c404].description =
          JsString(<<"missing">>)
    /\ DocSchema(c200).required = <<kId>>
    /\ DocSchema(c201).properties[kId] = [type |-> "number"]
    /\ DocSchema(c204) = GenericObject

\* the engine routes registered by documentedRoute, in order
WrappedRoutes == SelectSeq(engine, LAMBDA route : route.wrapped)

\* C27: the descriptors of getRoutes() are, one for one and in order, the
\* routes documentedRoute has registered with the engine, each under its
\* method, its resolved path and its handler.
C27_ListedIsRegistered ==
    /\ Len(WrappedRoutes) = Len(getRoutes(routes))
    /\ \A i \in 1..Len(WrappedRoutes) :
          /\ WrappedRoutes[i].method = toLowerCase(routes[i].method)
          /\ WrappedRoutes[i].path = fullPath(basePath, routes[i].path)
          /\ WrappedRoutes[i].handler = routes[i].handler

\* C29: at every call of listen, the port passed to the engine is a
\* number between 0 and 65535, and it is the number parsed from the host,
\* the port argument or 8080.
C29_PortIsNumber ==
    \A i \in DOMAIN listenPort :
        /\ listenPort[i].kind = "number"
        /\ listenPort[i].n \in 0..65535
        /\ listenPort[i] \in {hostPortNum(host), portArg[i], Num(8080)}

\* ------------------------------------------------------- rate limit claims

\* the answers to the requests of one IP, in order
AnswersTo(ip) == SelectSeq(limiter.log, LAMBDA e : e.ip = ip)

\* the window of an IP after the answers es, starting from the window w:
\* whether one is open, when it ends, how many requests it has seen and how
\* many of them passed; ok tells that every answer was the due one: a
\* request without an open window, or later than its end, passes and opens
\* a window; a request within the window passes when fewer than maxRequests
\* have passed in it and is answered 429 otherwise
RECURSIVE WindowAfter(_, _)
WindowAfter(es, w) ==
    IF es = <<>> THEN w
    ELSE LET e == Head(es)
             pass == e.answer.status # 429
         IN  IF ~w.open \/ e.now > w.resetTime
             THEN WindowAfter(Tail(es),
                      [open |-> TRUE, resetTime |-> e.now + limiter.windowMs,
                       seen |-> 1, passed |-> 1, ok |-> w.ok /\ pass])
             ELSE IF w.passed < limiter.maxRequests
             THEN WindowAfter(Tail(es),
                      [w EXCEPT !.seen = @ + 1, !.passed = @ + 1,
                                !.ok = @ /\ pass])
             ELSE WindowAfter(Tail(es),
                      [w EXCEPT !.seen = @ + 1,
                                !.ok = @ /\ ~pass /\ e.answer.status = 429])

NoWindow ==
    [open |-> FALSE, resetTime |-> 0, seen |-> 0, passed |-> 0, ok |-> TRUE]

\* C30: for every client IP, by its own requests alone: a request passes
\* when the IP has no window or the clock has passed the window's
\* resetTime, and it opens a window with count 1; within a window the
\* first maxRequests requests pass and every further one is answered 429;
\* the record of the IP holds the end of its window and the number of
\* requests the window has seen.
C30_WindowPerIp ==
    limiter # NoLimiter =>
        /\ DOMAIN limiter.requestCounts =
              {limiter.log[i].ip : i \in 1..Len(limiter.log)}
        /\ \A ip \in DOMAIN limiter.requestCounts :
              LET w == WindowAfter(AnswersTo(ip), NoWindow)
              IN  /\ w.ok
                  /\ w.passed <= limiter.maxRequests
                  /\ limiter.requestCounts[ip].resetTime = w.resetTime
                  /\ limiter.requestCounts[ip].count = w.seen

\* with maxRequests 1: a passed, a was answered 429, b passed at the same
\* time, and a passed again once the clock was past the end of its window
C30_Witness ==
    /\ limiter # NoLimiter
    /\ limiter.maxRequests = 1
    /\ Len(limiter.log) = 4
    /\ LET a == AnswersTo(<<"a">>)
           b == AnswersTo(<<"b">>)
       IN  /\ Len(a) = 3 /\ Len(b) = 1
           /\ a[1].answer = Passed
           /\ a[2].answer.status = 429
           /\ a[2].now = a[1].now
           /\ b[1].answer = Passed
           /\ b[1].now = a[1].now
           /\ a[3].answer = Passed
           /\ a[3].now > a[1].now + limiter.windowMs
           /\ limiter.requestCounts[<<"a">>].count = 1

====
